---------------------------- MODULE Spec2Model ----------------------------
(***************************************************************************)
(* A model of the crabv6 kernel core: process table, cooperative           *)
(* scheduler, trap/syscall path, per-process descriptor tables and the     *)
(* kernel-wide pipe table (src/src/{proc,scheduler,syscall,fd,process}.rs) *)
(* together with the retrying user library (src/user_bin/src/lib.rs).      *)
(*                                                                         *)
(* Every syscall handler is one atomic step: the hart is single and traps  *)
(* are not re-entered.  The kernel state is threaded through the handler   *)
(* as a record k; the spin::Mutex locks are tracked in k.held, and an      *)
(* attempt to lock a mutex that the running path already holds sets        *)
(* k.hung (the hart spins forever) and freezes the state reached so far.   *)
(***************************************************************************)
EXTENDS Integers, Sequences, FiniteSets, TLC

(***************************************************************************)
(* Bounds of the model.  The table sizes and the pipe capacity are the     *)
(* program's constants scaled down (8 processes, 16 descriptors, 8 pipes,  *)
(* 4096 bytes in the source).                                              *)
(***************************************************************************)
MAX_PROCESSES == 3
MAX_FDS == 5
MAX_PIPES == 1
PIPE_BUF_SIZE == 4
MaxIo == 2
MaxPipeIo == 5
MaxHist == 9
MaxTraps == 5

INVALID_PID == -1

EAGAIN == -11
EBADF == -9
EPIPE == -32
EMFILE == -24
ENOENT == -2
EIO == -5
ENOSYS == -38
ECHILD == -10
EINVAL == -22
ENOTDIR == -20
EEXIST == -17
ENOSPC == -28
EISDIR == -21
ENOTEMPTY == -39
ENAMETOOLONG == -36

SYS_WRITE == 1
SYS_EXIT == 2
SYS_CLOSE == 10
SYS_READ == 11
SYS_DUP2 == 12
SYS_PIPE == 13
SYS_SPAWN == 14
SYS_WAIT == 15

None == [kind |-> "None"]

Slots == 0 .. (MAX_PROCESSES - 1)
FdNums == 0 .. (MAX_FDS - 1)
PipeIds == 0 .. (MAX_PIPES - 1)

Min(a, b) == IF a < b THEN a ELSE b

\* Result<usize, FdError>; data carries the bytes a read stored in the
\* caller's buffer.
Ok(n) == [ok |-> TRUE, val |-> n, err |-> "none", data |-> << >>]
OkData(d) == [ok |-> TRUE, val |-> Len(d), err |-> "none", data |-> d]
Err(e) == [ok |-> FALSE, val |-> 0, err |-> e, data |-> << >>]

\* A kernel state paired with the value a function returns.
R(k, v) == [k |-> k, v |-> v]

VARIABLES
    processes,      \* ProcessTable.processes: slot -> Process or None
    current_pid,    \* ProcessTable.current_pid
    next_pid,       \* ProcessTable.next_pid
    pipes,          \* PipeTable.pipes: slot -> Pipe or None
    window,         \* the user window (the one physical range of user memory)
    trap_frame,     \* the trap frame the return path reloads the registers from
    sepc,           \* supervisor exception PC
    sscratch,       \* supervisor scratch: the user SP parked across a trap
    held,           \* mutexes held by the running kernel path
    hung,           \* the hart spins on a mutex its own path holds
    h_expect,       \* history: pid -> the context that process trapped with
    h_last,         \* history: the last trap handled
    h_in,           \* history: bytes accepted by pipe writes, in order
    h_out,          \* history: bytes returned by pipe reads, in order
    h_traps,        \* history: the number of traps handled
    u_prog,         \* user programs of the backpressure scenario
    fs,             \* FS_INSTANCE: the mounted TinyFs and its block device
    h_fs,           \* history: path -> the bytes last written to it
    h_load          \* history: the last program file and arguments spawned, and the outcome

kvars == << processes, current_pid, next_pid, pipes, window, trap_frame,
            sepc, sscratch, held, hung >>
hvars == << h_expect, h_last, h_in, h_out, h_traps >>
fsvars == << fs, h_fs, h_load >>
vars == << kvars, hvars, u_prog, fsvars >>

(***************************************************************************)
(* spin::Mutex.  lock() spins until the mutex is free; the hart is single  *)
(* and the kernel is not preempted, so a path that locks a mutex it        *)
(* already holds never returns.                                            *)
(***************************************************************************)
Lock(k, m) ==
    IF k.hung THEN k
    ELSE IF m \in k.held THEN [k EXCEPT !.hung = TRUE]
    ELSE [k EXCEPT !.held = @ \cup {m}]

Unlock(k, m) == IF k.hung THEN k ELSE [k EXCEPT !.held = @ \ {m}]

\* A guard taken, Body run under it, and the guard dropped.
WithLock(k, m, Body(_)) ==
    LET k1 == Lock(k, m) IN IF k1.hung THEN k1 ELSE Unlock(Body(k1), m)

WithLockR(k, m, Body(_)) ==
    LET k1 == Lock(k, m)
    IN  IF k1.hung THEN R(k1, Err("hung"))
        ELSE LET r == Body(k1) IN R(Unlock(r.k, m), r.v)

(***************************************************************************)
(* fd.rs: Pipe, a ring buffer with one slot kept free.                     *)
(***************************************************************************)
Pipe_new ==
    [buffer |-> [i \in 0 .. (PIPE_BUF_SIZE - 1) |-> 0],
     read_pos |-> 0, write_pos |-> 0,
     read_end_open |-> TRUE, write_end_open |-> TRUE,
     read_refcount |-> 1, write_refcount |-> 1,
     waiting_readers |-> << >>, waiting_writers |-> << >>]

\* A variant that forgets the wrapped case.
available_no_wrap(pipe) ==
    IF pipe.write_pos >= pipe.read_pos
    THEN pipe.write_pos - pipe.read_pos
    ELSE 0

\* Pipe::available
available(pipe) ==
    IF pipe.write_pos >= pipe.read_pos
    THEN pipe.write_pos - pipe.read_pos
    ELSE PIPE_BUF_SIZE - pipe.read_pos + pipe.write_pos

\* A variant that fills the ring completely (no slot kept free).
space_available_full(pipe) == PIPE_BUF_SIZE - available(pipe)

space_available(pipe) == PIPE_BUF_SIZE - available(pipe) - 1

\* The copy loop of Pipe::read: buf collects the bytes stored in the caller's
\* buffer so far.
RECURSIVE read_loop(_, _, _)
read_loop(pipe, buf, to_read) ==
    IF Len(buf) < to_read
    THEN read_loop([pipe EXCEPT !.read_pos = (@ + 1) % PIPE_BUF_SIZE],
                   Append(buf, pipe.buffer[pipe.read_pos]), to_read)
    ELSE [pipe |-> pipe, buf |-> buf]

\* A variant that reports end of file before looking at the buffer.
Pipe_read_eof_first(pipe, n) ==
    IF ~pipe.write_end_open
    THEN [pipe |-> pipe, res |-> Ok(0)]
    ELSE IF available(pipe) = 0
    THEN [pipe |-> pipe, res |-> Err("WouldBlock")]
    ELSE LET l == read_loop(pipe, << >>, Min(n, available(pipe)))
         IN  [pipe |-> l.pipe, res |-> OkData(l.buf)]

Pipe_read(pipe, n) ==
    IF available(pipe) = 0
    THEN IF pipe.write_end_open
         THEN [pipe |-> pipe, res |-> Err("WouldBlock")]
         ELSE [pipe |-> pipe, res |-> Ok(0)]
    ELSE LET l == read_loop(pipe, << >>, Min(n, available(pipe)))
         IN  [pipe |-> l.pipe, res |-> OkData(l.buf)]

\* The copy loop of Pipe::write.
RECURSIVE write_loop(_, _, _, _)
write_loop(pipe, buf, bytes_written, to_write) ==
    IF bytes_written < to_write
    THEN write_loop([pipe EXCEPT
                        !.buffer[pipe.write_pos] = buf[bytes_written + 1],
                        !.write_pos = (@ + 1) % PIPE_BUF_SIZE],
                    buf, bytes_written + 1, to_write)
    ELSE [pipe |-> pipe, n |-> bytes_written]

\* A variant that looks at the space before the read end.
Pipe_write_block_first(pipe, buf) ==
    IF space_available(pipe) = 0
    THEN [pipe |-> pipe, res |-> Err("WouldBlock")]
    ELSE IF ~pipe.read_end_open
    THEN [pipe |-> pipe, res |-> Err("BrokenPipe")]
    ELSE LET l == write_loop(pipe, buf, 0, Min(Len(buf), space_available(pipe)))
         IN  [pipe |-> l.pipe, res |-> Ok(l.n)]

Pipe_write(pipe, buf) ==
    IF ~pipe.read_end_open
    THEN [pipe |-> pipe, res |-> Err("BrokenPipe")]
    ELSE IF space_available(pipe) = 0
    THEN [pipe |-> pipe, res |-> Err("WouldBlock")]
    ELSE LET l == write_loop(pipe, buf, 0, Min(Len(buf), space_available(pipe)))
         IN  [pipe |-> l.pipe, res |-> Ok(l.n)]

mark_reader_waiting(pipe, pid) ==
    IF \E i \in 1 .. Len(pipe.waiting_readers) : pipe.waiting_readers[i] = pid
    THEN pipe
    ELSE [pipe EXCEPT !.waiting_readers = Append(@, pid)]

mark_writer_waiting(pipe, pid) ==
    IF \E i \in 1 .. Len(pipe.waiting_writers) : pipe.waiting_writers[i] = pid
    THEN pipe
    ELSE [pipe EXCEPT !.waiting_writers = Append(@, pid)]


(***************************************************************************)
(* proc.rs: the process table.                                             *)
(***************************************************************************)
\* ProcessTable::get / get_mut: the first slot holding the PID, -1 for None.
SlotOf(procs, pid) ==
    LET S == {s \in Slots : procs[s] # None /\ procs[s].pid = pid}
    IN  IF S = {} THEN -1 ELSE CHOOSE s \in S : \A t \in S : s <= t

\* ProcessTable::find_free_slot
find_free_slot(procs) ==
    LET S == {s \in Slots : procs[s] = None}
    IN  IF S = {} THEN -1 ELSE CHOOSE s \in S : \A t \in S : s <= t

\* Process::new
Process_new(pid, parent_pid, entry, stack_top, fd_table, memory, argc, argv_ptr) ==
    [pid |-> pid, parent_pid |-> parent_pid, state |-> "Ready",
     exit_code |-> 0, pc |-> entry, sp |-> stack_top,
     fd_table |-> fd_table, memory |-> memory,
     argc |-> argc, argv_ptr |-> argv_ptr, started |-> FALSE]

\* ProcessTable::get_all_processes: the live processes in slot order.
RECURSIVE all_from(_, _)
all_from(procs, s) ==
    IF s >= MAX_PROCESSES THEN << >>
    ELSE IF procs[s] = None THEN all_from(procs, s + 1)
    ELSE << procs[s] >> \o all_from(procs, s + 1)

get_all_processes(procs) == all_from(procs, 0)

Runnable(p) == p.state = "Ready" \/ p.state = "Running"

\* A variant that takes no snapshot.
save_current_memory_skip(k) == k

\* ProcessTable::save_current_memory

save_current_memory(k) ==
    LET s == SlotOf(k.processes, k.current_pid)
    IN  IF k.current_pid = INVALID_PID \/ s = -1 THEN k
        ELSE [k EXCEPT !.processes[s].memory = k.window]

\* A variant that leaves the window as the previous process left it.
restore_process_memory_skip(k, pid) == k

\* ProcessTable::restore_process_memory (a snapshot is never empty: spawn
\* always stores USER_WINDOW_SIZE bytes)

restore_process_memory(k, pid) ==
    LET s == SlotOf(k.processes, pid)
    IN  IF s = -1 THEN k ELSE [k EXCEPT !.window = k.processes[s].memory]

\* ProcessTable::save_current_registers: PC and SP only; the trap frame
\* argument is not read.
save_current_registers(k) ==
    LET s == SlotOf(k.processes, k.current_pid)
    IN  IF k.current_pid = INVALID_PID \/ s = -1 THEN k
        ELSE [k EXCEPT !.processes[s].pc = k.sepc,
                       !.processes[s].sp = k.sscratch]

\* ProcessTable::restore_process_registers
restore_process_registers(k, pid) ==
    LET s == SlotOf(k.processes, pid)
    IN  IF s = -1 THEN k
        ELSE LET p == k.processes[s]
                 k1 == [k EXCEPT !.sepc = p.pc, !.sscratch = p.sp]
             IN  IF ~p.started
                 THEN [k1 EXCEPT
                         !.trap_frame = [ra |-> 0, a0 |-> p.argc,
                                         a1 |-> p.argv_ptr, a2 |-> 0,
                                         a3 |-> 0],
                         !.processes[s].started = TRUE]
                 ELSE k1

(***************************************************************************)
(* scheduler.rs                                                            *)
(***************************************************************************)
\* Scheduler::schedule: the PID chosen, INVALID_PID for None.
schedule_pick(procs, current) ==
    LET all == get_all_processes(procs)
        idx == {i \in 1 .. Len(all) : Runnable(all[i])}
        \* the runnable PIDs, in slot order
        n == Cardinality(idx)
        nth(j) == CHOOSE i \in idx : Cardinality({x \in idx : x < i}) = j
        pids == [j \in 0 .. (n - 1) |-> all[nth(j)].pid]
        pos == {j \in 0 .. (n - 1) : pids[j] = current}
    IN  IF n = 0 THEN INVALID_PID
        ELSE IF current # INVALID_PID /\ pos # {}
        THEN pids[((CHOOSE j \in pos : \A i \in pos : j <= i) + 1) % n]
        ELSE pids[0]

Scheduler_schedule(k) ==
    WithLockR(k, "PROCESS_TABLE",
              LAMBDA k1 : R(k1, schedule_pick(k1.processes, k1.current_pid)))

\* Scheduler::block_current
Scheduler_block_current(k) ==
    LET k1 == WithLock(k, "PROCESS_TABLE", LAMBDA x : x)
    IN  IF k1.hung \/ k1.current_pid = INVALID_PID THEN k1
        ELSE WithLock(k1, "PROCESS_TABLE",
               LAMBDA x : LET s == SlotOf(x.processes, x.current_pid)
                          IN  IF s = -1 THEN x
                              ELSE [x EXCEPT !.processes[s].state = "Blocked"])

\* Scheduler::unblock
Scheduler_unblock(k, pid) ==
    WithLock(k, "PROCESS_TABLE",
       LAMBDA x : LET s == SlotOf(x.processes, pid)
                  IN  IF s # -1 /\ x.processes[s].state = "Blocked"
                      THEN [x EXCEPT !.processes[s].state = "Ready"]
                      ELSE x)

\* The decision of Scheduler::maybe_switch: <<should_switch, make_current_ready>>
switch_decision(k) ==
    IF k.current_pid = INVALID_PID THEN << TRUE, FALSE >>
    ELSE LET s == SlotOf(k.processes, k.current_pid)
             has_other_ready ==
                 \E t \in Slots : /\ k.processes[t] # None
                                  /\ k.processes[t].pid # k.current_pid
                                  /\ Runnable(k.processes[t])
         IN  IF s = -1 THEN << TRUE, FALSE >>
             ELSE IF k.processes[s].state \in {"Blocked", "Exited"}
             THEN << TRUE, FALSE >>
             ELSE IF has_other_ready THEN << TRUE, TRUE >>
             ELSE << FALSE, FALSE >>

\* A variant of the save block that leaves the current process Running.
save_current_keep_running(k, make_current_ready) ==
    IF k.current_pid = INVALID_PID THEN k
    ELSE WithLock(k, "PROCESS_TABLE",
           LAMBDA x : save_current_memory(save_current_registers(x)))

\* The save block of maybe_switch (scheduler.rs 111-122).
save_current(k, make_current_ready) ==
    LET ready(x1) ==
            IF make_current_ready /\ SlotOf(x1.processes, x1.current_pid) # -1
               /\ x1.processes[SlotOf(x1.processes, x1.current_pid)].state
                    = "Running"
            THEN [x1 EXCEPT
                    !.processes[SlotOf(x1.processes, x1.current_pid)].state =
                        "Ready"]
            ELSE x1
    IN  IF k.current_pid = INVALID_PID THEN k
        ELSE WithLock(k, "PROCESS_TABLE",
               LAMBDA x : ready(save_current_memory(save_current_registers(x))))

\* The restore block of maybe_switch (scheduler.rs 125-137).
switch_to(k, next) ==
    LET run(x1) == IF SlotOf(x1.processes, next) = -1 THEN x1
                   ELSE [x1 EXCEPT
                           !.processes[SlotOf(x1.processes, next)].state =
                               "Running"]
    IN  WithLock(k, "PROCESS_TABLE",
          LAMBDA x :
            run(restore_process_registers(
                  restore_process_memory([x EXCEPT !.current_pid = next], next),
                  next)))

\* Scheduler::maybe_switch
maybe_switch(k) ==
    LET k1 == WithLock(k, "PROCESS_TABLE", LAMBDA x : x)
        k2 == IF k1.current_pid = INVALID_PID THEN k1
              ELSE WithLock(k1, "PROCESS_TABLE", LAMBDA x : x)
        d == switch_decision(k2)
        switch(r) == IF r.k.hung \/ r.v = INVALID_PID THEN r.k
                     ELSE switch_to(r.k, r.v)
    IN  IF k2.hung \/ ~d[1] THEN k2
        ELSE switch(Scheduler_schedule(save_current(k2, d[2])))


(***************************************************************************)
(* fd.rs: descriptors, the per-process descriptor table, the pipe table.   *)
(***************************************************************************)
UartFd(mode) == [kind |-> "Uart", mode |-> mode]
PipeFd(pipe_id, is_read_end) ==
    [kind |-> "Pipe", pipe_id |-> pipe_id, is_read_end |-> is_read_end]

\* FdTable::with_standard
with_standard ==
    [i \in FdNums |-> IF i = 0 THEN UartFd("Read")
                      ELSE IF i \in {1, 2} THEN UartFd("Write")
                      ELSE None]

RECURSIVE unblock_all(_, _)
unblock_all(k, pids) ==
    IF pids = << >> THEN k
    ELSE unblock_all(Scheduler_unblock(k, Head(pids)), Tail(pids))

\* Pipe::wake_readers / Pipe::wake_writers: the queue is taken, then every
\* PID in it is unblocked.
wake_readers(k, id) ==
    IF k.hung THEN k
    ELSE unblock_all([k EXCEPT !.pipes[id].waiting_readers = << >>],
                     k.pipes[id].waiting_readers)

wake_writers(k, id) ==
    IF k.hung THEN k
    ELSE unblock_all([k EXCEPT !.pipes[id].waiting_writers = << >>],
                     k.pipes[id].waiting_writers)

\* PipeTable::incref (the caller holds PIPE_TABLE)
incref(k, pipe_id, is_read_end) ==
    IF pipe_id >= MAX_PIPES \/ k.pipes[pipe_id] = None THEN k
    ELSE IF is_read_end
    THEN [k EXCEPT !.pipes[pipe_id].read_refcount = @ + 1,
                   !.pipes[pipe_id].read_end_open = TRUE]
    ELSE [k EXCEPT !.pipes[pipe_id].write_refcount = @ + 1,
                   !.pipes[pipe_id].write_end_open = TRUE]

\* PipeTable::read (the caller holds PIPE_TABLE)
PipeTable_read(k, pipe_id, n) ==
    LET done(r) ==
            IF ~r.res.ok THEN R(k, r.res)
            ELSE IF r.res.val > 0
            THEN R(wake_writers([k EXCEPT !.pipes[pipe_id] = r.pipe], pipe_id),
                   r.res)
            ELSE R([k EXCEPT !.pipes[pipe_id] = r.pipe], r.res)
    IN  IF pipe_id >= MAX_PIPES \/ k.pipes[pipe_id] = None THEN R(k, Err("BadFd"))
        ELSE done(Pipe_read(k.pipes[pipe_id], n))

\* PipeTable::write (the caller holds PIPE_TABLE)
PipeTable_write(k, pipe_id, buf) ==
    LET done(r) ==
            IF ~r.res.ok THEN R(k, r.res)
            ELSE IF r.res.val > 0
            THEN R(wake_readers([k EXCEPT !.pipes[pipe_id] = r.pipe], pipe_id),
                   r.res)
            ELSE R([k EXCEPT !.pipes[pipe_id] = r.pipe], r.res)
    IN  IF pipe_id >= MAX_PIPES \/ k.pipes[pipe_id] = None THEN R(k, Err("BadFd"))
        ELSE done(Pipe_write(k.pipes[pipe_id], buf))

\* A variant that marks the end closed at every close, whatever descriptors
\* remain.
close_pipe_end_always_closed(k, pipe_id, is_read_end) ==
    IF pipe_id >= MAX_PIPES \/ k.pipes[pipe_id] = None THEN k
    ELSE IF is_read_end
    THEN [k EXCEPT !.pipes[pipe_id].read_refcount = IF @ > 0 THEN @ - 1 ELSE 0,
                   !.pipes[pipe_id].read_end_open = FALSE]
    ELSE [k EXCEPT !.pipes[pipe_id].write_refcount = IF @ > 0 THEN @ - 1 ELSE 0,
                   !.pipes[pipe_id].write_end_open = FALSE]

\* PipeTable::close_pipe_end (the caller holds PIPE_TABLE)
close_pipe_end(k, pipe_id, is_read_end) ==
    IF pipe_id >= MAX_PIPES \/ k.pipes[pipe_id] = None THEN k
    ELSE LET p == k.pipes[pipe_id]
             rc == IF is_read_end
                   THEN (IF p.read_refcount > 0 THEN p.read_refcount - 1 ELSE 0)
                   ELSE (IF p.write_refcount > 0 THEN p.write_refcount - 1 ELSE 0)
             k1 == IF is_read_end
                   THEN [k EXCEPT !.pipes[pipe_id].read_refcount = rc,
                                  !.pipes[pipe_id].read_end_open = (rc > 0)]
                   ELSE [k EXCEPT !.pipes[pipe_id].write_refcount = rc,
                                  !.pipes[pipe_id].write_end_open = (rc > 0)]
             \* the slot is freed once both ends are closed
             free(k2) ==
                 IF k2.hung THEN k2
                 ELSE IF ~k2.pipes[pipe_id].read_end_open
                         /\ ~k2.pipes[pipe_id].write_end_open
                 THEN [k2 EXCEPT !.pipes[pipe_id] = None]
                 ELSE k2
         IN  free(IF rc > 0 THEN k1
                  ELSE IF is_read_end THEN wake_writers(k1, pipe_id)
                  ELSE wake_readers(k1, pipe_id))

\* PipeTable::create_pipe: the slot taken, or TooManyOpen.
create_pipe(k) ==
    WithLockR(k, "PIPE_TABLE",
       LAMBDA x :
         LET S == {i \in PipeIds : x.pipes[i] = None}
         IN  IF S = {} THEN R(x, Err("TooManyOpen"))
             ELSE LET i == CHOOSE i \in S : \A j \in S : i <= j
                  IN  R([x EXCEPT !.pipes[i] = Pipe_new], Ok(i)))

\* PipeFd::read / PipeFd::write
PipeFd_read(k, fd, n) ==
    IF ~fd.is_read_end THEN R(k, Err("BadFd"))
    ELSE WithLockR(k, "PIPE_TABLE", LAMBDA x : PipeTable_read(x, fd.pipe_id, n))

PipeFd_write(k, fd, buf) ==
    IF fd.is_read_end THEN R(k, Err("BadFd"))
    ELSE WithLockR(k, "PIPE_TABLE", LAMBDA x : PipeTable_write(x, fd.pipe_id, buf))

\* UartFd::read / UartFd::write; inbyte is the byte the UART delivers.
UartFd_read(k, fd, n, inbyte) ==
    IF fd.mode # "Read" THEN R(k, Err("BadFd"))
    ELSE IF n = 0 THEN R(k, Ok(0))
    ELSE R(k, OkData(<< inbyte >>))

UartFd_write(k, fd, buf) ==
    IF fd.mode # "Write" THEN R(k, Err("BadFd")) ELSE R(k, Ok(Len(buf)))

\* A variant that copies a pipe descriptor without counting it.
FileDescriptor_clone_no_incref(k, fd) == k

\* FileDescriptor::clone
FileDescriptor_clone(k, fd) ==
    IF fd.kind = "Pipe"
    THEN WithLock(k, "PIPE_TABLE",
                  LAMBDA x : incref(x, fd.pipe_id, fd.is_read_end))
    ELSE k

\* FdTable::clone (derived): every descriptor is cloned, in slot order.
RECURSIVE clone_from(_, _, _)
clone_from(k, fds, i) ==
    IF i >= MAX_FDS THEN k
    ELSE IF fds[i] = None THEN clone_from(k, fds, i + 1)
    ELSE clone_from(FileDescriptor_clone(k, fds[i]), fds, i + 1)

FdTable_clone(k, fds) == clone_from(k, fds, 0)

\* FdTable::alloc on the table of the process in slot s.
FdTable_alloc(k, s, fd) ==
    LET S == {i \in FdNums : k.processes[s].fd_table[i] = None}
    IN  IF S = {} THEN R(k, Err("TooManyOpen"))
        ELSE LET i == CHOOSE i \in S : \A j \in S : i <= j
             IN  R([k EXCEPT !.processes[s].fd_table[i] = fd], Ok(i))

\* FdTable::close on the table of the process in slot s.
FdTable_close(k, s, fd_num) ==
    IF k.hung THEN R(k, Err("hung"))
    ELSE IF fd_num >= MAX_FDS \/ fd_num < 0 THEN R(k, Err("BadFd"))
    ELSE LET fd == k.processes[s].fd_table[fd_num]
             k1 == [k EXCEPT !.processes[s].fd_table[fd_num] = None]
         IN  IF fd = None THEN R(k, Err("BadFd"))
             ELSE IF fd.kind = "Pipe"
             THEN R(WithLock(k1, "PIPE_TABLE",
                      LAMBDA x : close_pipe_end(x, fd.pipe_id, fd.is_read_end)),
                    Ok(0))
             ELSE R(k1, Ok(0))

\* FdTable::dup2 on the table of the process in slot s.
FdTable_dup2(k, s, old_fd, new_fd) ==
    IF old_fd >= MAX_FDS \/ new_fd >= MAX_FDS \/ old_fd < 0 \/ new_fd < 0
    THEN R(k, Err("BadFd"))
    ELSE LET fd == k.processes[s].fd_table[old_fd]
             existing == k.processes[s].fd_table[new_fd]
             take(k1) ==
                 IF k1.hung THEN k1
                 ELSE [k1 EXCEPT !.processes[s].fd_table[new_fd] = None]
             close_existing(k2) ==
                 IF existing # None /\ existing.kind = "Pipe"
                 THEN WithLock(k2, "PIPE_TABLE",
                        LAMBDA x : close_pipe_end(x, existing.pipe_id,
                                                  existing.is_read_end))
                 ELSE k2
             install(k3) ==
                 IF k3.hung THEN R(k3, Err("hung"))
                 ELSE R([k3 EXCEPT !.processes[s].fd_table[new_fd] = fd], Ok(0))
         IN  IF fd = None THEN R(k, Err("BadFd"))
             ELSE install(close_existing(take(FileDescriptor_clone(k, fd))))

\* FdTable::close_all
RECURSIVE close_from(_, _, _)
close_from(k, s, i) ==
    IF i >= MAX_FDS THEN k
    ELSE close_from(FdTable_close(k, s, i).k, s, i + 1)

FdTable_close_all(k, s) == close_from(k, s, 0)


(***************************************************************************)
(* process.rs: the loader and the user window.  Addresses are offsets from *)
(* USER_IMAGE_BASE.  The window is kept as four cells: the bytes covered   *)
(* by the loaded segments (text: which program), the initial stack words   *)
(* (stack: the argument lengths pushed), a cell of user data outside both  *)
(* (data) and the buffer user code hands to the kernel (buf).              *)
(***************************************************************************)
USER_WINDOW_SIZE == 131072

ZeroWindow == [text |-> 0, stack |-> << >>, data |-> 0, buf |-> << >>]

\* The files process::load can find: path -> LoadedProgram (entry offset and
\* the identity of its segment bytes).  Any other path is an error.
Binaries == [sh |-> [entry |-> 0, text |-> 1],
             cat |-> [entry |-> 64, text |-> 2]]

\* process::load
load(path) ==
    IF path \in DOMAIN Binaries
    THEN [ok |-> TRUE, program |-> Binaries[path]]
    ELSE [ok |-> FALSE, program |-> None]

\* process::load_into_user_window
load_into_user_window(k, program) == [k EXCEPT !.window.text = program.text]

RECURSIVE push_args(_, _)
\* The first loop of build_user_stack: sp after the strings of args have
\* been pushed, last argument first.
push_args(sp, args) ==
    IF args = << >> THEN sp
    ELSE push_args(sp - (args[Len(args)] + 1), SubSeq(args, 1, Len(args) - 1))

\* process::build_user_stack; args are the argument lengths.
build_user_stack(k, args) ==
    LET argc == Len(args)
        sp1 == push_args(USER_WINDOW_SIZE, args)
        sp2 == sp1 - (sp1 % 16)
        sp3 == IF (argc + 2) % 2 # 0 THEN sp2 - 8 ELSE sp2
        sp4 == sp3 - 8
        argv_ptr == sp4 - 8 * argc
        sp == argv_ptr - 8
    IN  IF sp1 < 0 THEN R(k, [ok |-> FALSE, sp |-> 0, argc |-> 0, argv_ptr |-> 0])
        ELSE R([k EXCEPT !.window.stack = args],
               [ok |-> TRUE, sp |-> sp, argc |-> argc, argv_ptr |-> argv_ptr])

\* A variant whose alloc_pid does not advance next_pid.
ProcessTable_spawn_no_advance(k, entry, stack_top, fd_table, memory, argc, argv_ptr) ==
    LET slot == find_free_slot(k.processes)
    IN  IF slot = -1 THEN R(k, Err("TooManyProcesses"))
        ELSE R([k EXCEPT
                  !.processes[slot] =
                      Process_new(k.next_pid, k.current_pid, entry, stack_top,
                                  fd_table, memory, argc, argv_ptr)],
               Ok(k.next_pid))

\* ProcessTable::spawn (the caller holds PROCESS_TABLE)
ProcessTable_spawn(k, entry, stack_top, fd_table, memory, argc, argv_ptr) ==
    LET slot == find_free_slot(k.processes)
    IN  IF slot = -1 THEN R(k, Err("TooManyProcesses"))
        ELSE R([k EXCEPT
                  !.processes[slot] =
                      Process_new(k.next_pid, k.current_pid, entry, stack_top,
                                  fd_table, memory, argc, argv_ptr),
                  !.next_pid = @ + 1],
               Ok(k.next_pid))

\* ProcessTable::exit_process (the caller holds PROCESS_TABLE)
exit_process(k, pid, code) ==
    LET s == SlotOf(k.processes, pid)
        exit(k1) == IF k1.hung THEN k1
                    ELSE [k1 EXCEPT !.processes[s].state = "Exited",
                                    !.processes[s].exit_code = code]
    IN  IF s = -1 THEN k ELSE exit(FdTable_close_all(k, s))

\* ProcessTable::wait (the caller holds PROCESS_TABLE): the first exited
\* child in slot order is removed.
ProcessTable_wait(k, parent_pid) ==
    LET S == {s \in Slots : /\ k.processes[s] # None
                            /\ k.processes[s].parent_pid = parent_pid
                            /\ k.processes[s].state = "Exited"}
    IN  IF S = {} THEN R(k, [found |-> FALSE, pid |-> 0, code |-> 0])
        ELSE LET s == CHOOSE s \in S : \A t \in S : s <= t
                 c == k.processes[s]
             IN  R([k EXCEPT !.processes[SlotOf(k.processes, c.pid)] = None],
                   [found |-> TRUE, pid |-> c.pid, code |-> c.exit_code])

\* ProcessTable::has_children
has_children(procs, parent_pid) ==
    \E s \in Slots : procs[s] # None /\ procs[s].parent_pid = parent_pid


(***************************************************************************)
(* syscall.rs.  Handlers read their scalar arguments from the trap frame;  *)
(* the bytes behind a user pointer (the write buffer, the spawn argument   *)
(* lengths) are passed beside the frame.                                   *)
(***************************************************************************)
\* fd_errno / proc_errno / the SysError arms of dispatch
errno(e) ==
    CASE e = "BadFd" -> EBADF
      [] e = "TooManyOpen" -> EMFILE
      [] e = "WouldBlock" -> EAGAIN
      [] e = "BrokenPipe" -> EPIPE
      [] e = "NoProcess" -> EBADF
      [] e = "Child" -> ECHILD
      [] e = "TooManyProcesses" -> EMFILE
      [] e = "ProgramNotFound" -> ENOENT
      [] e = "LoadFailed" -> EIO
      [] e = "NoSys" -> ENOSYS
      [] e = "NotFound" -> ENOENT
      [] e = "NameTooLong" -> ENAMETOOLONG
      [] e \in {"DirectoryFull", "NoSpace"} -> ENOSPC
      [] e \in {"InvalidEncoding", "InvalidPath"} -> EINVAL
      [] e \in {"NotADirectory", "IsFile"} -> ENOTDIR
      [] e = "AlreadyExists" -> EEXIST
      [] e = "DirectoryNotEmpty" -> ENOTEMPTY
      [] e = "IsDirectory" -> EISDIR
      [] OTHER -> 0

\* with_current_fd_table_mut
with_current_fd_table_mut(k, F(_, _)) ==
    WithLockR(k, "PROCESS_TABLE",
       LAMBDA x : LET s == SlotOf(x.processes, x.current_pid)
                  IN  IF x.current_pid = INVALID_PID \/ s = -1
                      THEN R(x, Err("NoProcess"))
                      ELSE F(x, s))

\* A variant of the WouldBlock arm that queues the caller but does not block
\* it.
block_on_pipe_no_block(k, pipe_waiting_on, pid, reading) ==
    IF pipe_waiting_on = -1 THEN k
    ELSE WithLock(k, "PIPE_TABLE",
           LAMBDA x :
             IF pipe_waiting_on >= MAX_PIPES \/ x.pipes[pipe_waiting_on] = None
             THEN x
             ELSE [x EXCEPT !.pipes[pipe_waiting_on] =
                      IF reading THEN mark_reader_waiting(@, pid)
                      ELSE mark_writer_waiting(@, pid)])

\* The WouldBlock arm of sys_read and sys_write: the caller is queued on the
\* pipe (when the descriptor was a pipe) and blocked.
block_on_pipe(k, pipe_waiting_on, pid, reading) ==
    LET k1 == IF pipe_waiting_on = -1 THEN k
              ELSE WithLock(k, "PIPE_TABLE",
                     LAMBDA x :
                       IF pipe_waiting_on >= MAX_PIPES
                          \/ x.pipes[pipe_waiting_on] = None
                       THEN x
                       ELSE [x EXCEPT !.pipes[pipe_waiting_on] =
                                IF reading THEN mark_reader_waiting(@, pid)
                                ELSE mark_writer_waiting(@, pid)])
    IN  Scheduler_block_current(k1)

\* sys_read; a1 = fd, a3 = buf_len.
sys_read(k, inbyte) ==
    LET fd == k.trap_frame.a1
        n == k.trap_frame.a3
        attempt(k0) ==
            LET reader_pid == k0.current_pid
                s0 == SlotOf(k0.processes, reader_pid)
                e0 == IF s0 = -1 \/ fd >= MAX_FDS \/ fd < 0 THEN None
                      ELSE k0.processes[s0].fd_table[fd]
                pipe_waiting_on == IF e0 # None /\ e0.kind = "Pipe"
                                   THEN e0.pipe_id ELSE -1
                finish(r) ==
                    IF r.k.hung THEN r
                    ELSE IF r.v.ok
                    THEN R(IF r.v.data # << >>
                           THEN [r.k EXCEPT !.window.buf = r.v.data]
                           ELSE r.k, r.v)
                    ELSE IF r.v.err = "WouldBlock"
                    THEN R(block_on_pipe(r.k, pipe_waiting_on, reader_pid, TRUE),
                           r.v)
                    ELSE r
            IN  finish(WithLockR(k0, "PROCESS_TABLE",
                         LAMBDA x :
                           IF e0 = None THEN R(x, Err("BadFd"))
                           ELSE IF e0.kind = "Pipe" THEN PipeFd_read(x, e0, n)
                           ELSE UartFd_read(x, e0, n, inbyte)))
    IN  attempt(WithLock(k, "PROCESS_TABLE", LAMBDA x : x))

\* sys_write; a1 = fd, a3 = len, bytes = the len bytes at the user pointer.
sys_write(k, bytes) ==
    LET fd == k.trap_frame.a1
        attempt(k0) ==
            LET writer_pid == k0.current_pid
                s0 == SlotOf(k0.processes, writer_pid)
                e0 == IF s0 = -1 \/ fd >= MAX_FDS \/ fd < 0 THEN None
                      ELSE k0.processes[s0].fd_table[fd]
                pipe_waiting_on == IF e0 # None /\ e0.kind = "Pipe"
                                   THEN e0.pipe_id ELSE -1
                finish(r) ==
                    IF r.k.hung \/ r.v.ok THEN r
                    ELSE IF r.v.err = "WouldBlock"
                    THEN R(block_on_pipe(r.k, pipe_waiting_on, writer_pid, FALSE),
                           r.v)
                    ELSE r
            IN  finish(WithLockR(k0, "PROCESS_TABLE",
                         LAMBDA x :
                           IF e0 = None THEN R(x, Err("BadFd"))
                           ELSE IF e0.kind = "Pipe" THEN PipeFd_write(x, e0, bytes)
                           ELSE UartFd_write(x, e0, bytes)))
    IN  IF k.trap_frame.a3 = 0 THEN R(k, Ok(0))
        ELSE attempt(WithLock(k, "PROCESS_TABLE", LAMBDA x : x))

\* sys_exit; a1 = code.
sys_exit(k) ==
    LET code == k.trap_frame.a1
        \* Unblock any parent waiting for this child
        notify(x1, pid) ==
            LET s == SlotOf(x1.processes, pid)
            IN  IF pid = INVALID_PID \/ x1.hung THEN x1
                ELSE IF s # -1 /\ x1.processes[s].parent_pid # INVALID_PID
                THEN Scheduler_unblock(x1, x1.processes[s].parent_pid)
                ELSE x1
        report(k1) == R(WithLock(k1, "PROCESS_TABLE", LAMBDA x : x), Ok(code))
    IN  report(WithLock(k, "PROCESS_TABLE",
                 LAMBDA x : notify(exit_process(x, x.current_pid, code),
                                   x.current_pid)))

\* sys_close; a1 = fd.
sys_close(k) ==
    with_current_fd_table_mut(k, LAMBDA x, s : FdTable_close(x, s, x.trap_frame.a1))

\* sys_dup2; a1 = old_fd, a2 = new_fd.
sys_dup2(k) ==
    LET finish(r) == IF r.v.ok THEN R(r.k, Ok(k.trap_frame.a2)) ELSE r
    IN  finish(with_current_fd_table_mut(k,
                 LAMBDA x, s :
                   FdTable_dup2(x, s, x.trap_frame.a1, x.trap_frame.a2)))

\* sys_pipe; the two descriptor numbers are stored through the user pointer.
sys_pipe(k) ==
    LET \* Write the fd numbers to user space
        store(r) == IF r.k.hung \/ ~r.v.ok THEN r
                    ELSE R([r.k EXCEPT !.window.buf = r.v.data], Ok(0))
        \* the write end is allocated after the read end, which is closed
        \* again when the table is full
        second(x, s, pipe_id, rd) ==
            LET pair(wr) ==
                    IF ~wr.v.ok
                    THEN R(FdTable_close(wr.k, s, rd.v.val).k, wr.v)
                    ELSE R(wr.k, OkData(<< rd.v.val, wr.v.val >>))
            IN  IF ~rd.v.ok THEN rd
                ELSE pair(FdTable_alloc(rd.k, s, PipeFd(pipe_id, FALSE)))
        alloc_both(c) ==
            IF c.k.hung \/ ~c.v.ok THEN c
            ELSE store(with_current_fd_table_mut(c.k,
                   LAMBDA x, s :
                     second(x, s, c.v.val,
                            FdTable_alloc(x, s, PipeFd(c.v.val, TRUE)))))
    IN  alloc_both(create_pipe(k))

\* sys_spawn; a1 = path, args = the argument lengths read from user memory.
sys_spawn(k, args) ==
    LET path == k.trap_frame.a1
        l == load(path)
        s1 == SlotOf(k.processes, k.current_pid)
        fd_table == IF k.current_pid = INVALID_PID \/ s1 = -1 THEN with_standard
                    ELSE k.processes[s1].fd_table
        \* the child's image is snapshotted, the parent's window put back and
        \* the process entry created
        create(b, saved_window) ==
            IF ~b.v.ok THEN R(b.k, Err("LoadFailed"))
            ELSE WithLockR([b.k EXCEPT !.window = saved_window], "PROCESS_TABLE",
                   LAMBDA x : ProcessTable_spawn(x, l.program.entry, b.v.sp,
                                                 fd_table, b.k.window,
                                                 b.v.argc, b.v.argv_ptr))
        build(k1) ==
            IF k1.hung THEN R(k1, Err("hung"))
            ELSE create(build_user_stack(load_into_user_window(k1, l.program),
                                         args),
                        k1.window)
    IN  IF ~l.ok THEN R(k, Err("ProgramNotFound"))
        ELSE build(\* Inherit fds from parent
                   WithLock(k, "PROCESS_TABLE",
                     LAMBDA x : IF x.current_pid = INVALID_PID \/ s1 = -1 THEN x
                                ELSE FdTable_clone(x, x.processes[s1].fd_table)))

\* sys_wait; the exit code is stored through the status pointer.
sys_wait(k) ==
    LET finish(r) ==
            IF r.k.hung \/ r.v.ok \/ r.v.err # "WouldBlock" THEN r
            ELSE R(Scheduler_block_current(r.k), r.v)
        reap(x, w) ==
            IF w.v.found
            THEN R([w.k EXCEPT !.window.buf = << w.v.code >>], Ok(w.v.pid))
            ELSE R(x, Err("WouldBlock"))
    IN  finish(WithLockR(k, "PROCESS_TABLE",
                 LAMBDA x :
                   IF x.current_pid = INVALID_PID THEN R(x, Err("Child"))
                   ELSE IF ~has_children(x.processes, x.current_pid)
                   THEN R(x, Err("Child"))
                   ELSE reap(x, ProcessTable_wait(x, x.current_pid))))

\* dispatch: the handler chosen by a0, and its result as the code placed in a0.
dispatch(k, bytes, inbyte) ==
    LET no == k.trap_frame.a0
        code(r) == R(r.k, IF r.v.ok THEN r.v.val ELSE errno(r.v.err))
    IN  code(CASE no = SYS_WRITE -> sys_write(k, bytes)
               [] no = SYS_EXIT -> sys_exit(k)
               [] no = SYS_CLOSE -> sys_close(k)
               [] no = SYS_READ -> sys_read(k, inbyte)
               [] no = SYS_DUP2 -> sys_dup2(k)
               [] no = SYS_PIPE -> sys_pipe(k)
               [] no = SYS_SPAWN -> sys_spawn(k, bytes)
               [] no = SYS_WAIT -> sys_wait(k)
               [] OTHER -> R(k, Err("NoSys")))

\* handle_ecall up to the call of maybe_switch: sepc advanced over the ecall,
\* the handler run, its code stored in a0 of the trap frame.
ecall_dispatch(k, bytes, inbyte) ==
    LET store(r) == IF r.k.hung THEN r.k ELSE [r.k EXCEPT !.trap_frame.a0 = r.v]
    IN  store(dispatch([k EXCEPT !.sepc = @ + 4], bytes, inbyte))

\* handle_ecall
handle_ecall(k, bytes, inbyte) == maybe_switch(ecall_dispatch(k, bytes, inbyte))


(***************************************************************************)
(* The user side of a trap.  User code reaches an ecall through one of the *)
(* library wrappers, which load a0 with the syscall number and a1..a3 with *)
(* the arguments; every wrapper has its own ecall site.  The other         *)
(* registers and the stack pointer are as the process was resumed with.    *)
(***************************************************************************)
\* The address of the wrapper's ecall in the image the window holds.
ecall_site(k, no) == (IF k.window.text = 2 THEN 64 ELSE 0) + 4 * no

\* user_bin/src/lib.rs: the register set-up of a wrapper; the caller also
\* leaves a mark in its own data.
user_ecall(k, no, a1, a2, a3) ==
    [k EXCEPT !.trap_frame = [@ EXCEPT !.a0 = no, !.a1 = a1, !.a2 = a2, !.a3 = a3],
              !.window.data = no,
              !.sepc = ecall_site(k, no)]

\* Trap entry: the trampoline stores the user registers in the trap frame
\* and parks the user SP in sscratch; sepc holds the address of the ecall.
trap_entry(k, no, a1, a2, a3) == user_ecall(k, no, a1, a2, a3)

(***************************************************************************)
(* fs.rs.  A block is a sequence of BLOCK_SIZE bytes; a name and a path    *)
(* are sequences of bytes (47 is '/').  The functions take the TinyFs      *)
(* value f (device, superblock, root_entries) and return it changed,       *)
(* paired with their result where they have one.  fs::write_file and its   *)
(* siblings lock FS_INSTANCE around one TinyFs method and nothing else.    *)
(***************************************************************************)
BLOCK_SIZE == 28
NAME_LEN == 2
TotalBlocks == 5
MAGIC == 1413895985
VERSION == 2
DIR_BLOCK_INDEX == 1
DATA_START_BLOCK == 2
DIR_ENTRY_SIZE == NAME_LEN + 4 + 4 + 1 + 3
MAX_FILES == BLOCK_SIZE \div DIR_ENTRY_SIZE

Zeros(n) == [i \in 1 .. n |-> 0]

\* u32::to_le_bytes
to_le_bytes(x) ==
    << x % 256, (x \div 256) % 256, (x \div 65536) % 256,
       (x \div 16777216) % 256 >>

\* u32::from_le_bytes
from_le_bytes(b) == b[1] + 256 * b[2] + 65536 * b[3] + 16777216 * b[4]

\* EntryType::to_raw
to_raw(kind) == IF kind = "File" THEN 1 ELSE 2

\* EntryType::from_raw
from_raw(value) ==
    CASE value = 1 -> [some |-> TRUE, kind |-> "File"]
      [] value = 2 -> [some |-> TRUE, kind |-> "Directory"]
      [] OTHER -> [some |-> FALSE, kind |-> "File"]

\* slice::chunks
RECURSIVE chunks(_, _)
chunks(s, n) ==
    IF Len(s) = 0 THEN << >>
    ELSE << SubSeq(s, 1, Min(n, Len(s))) >>
           \o chunks(SubSeq(s, Min(n, Len(s)) + 1, Len(s)), n)

\* write_entry
write_entry(entry) ==
    LET copy_len == Min(NAME_LEN, Len(entry.name))
    IN  SubSeq(entry.name, 1, copy_len) \o Zeros(NAME_LEN - copy_len)
          \o to_le_bytes(entry.start_block) \o to_le_bytes(entry.length)
          \o << to_raw(entry.kind) >> \o Zeros(3)

\* deserialize_entry: None for a chunk that holds no entry.  The names of
\* the model are ASCII, so from_utf8 succeeds.
deserialize_entry(chunk) ==
    IF Len(chunk) < DIR_ENTRY_SIZE THEN None
    ELSE IF chunk[1] = 0 THEN None
    ELSE LET nul == {i \in 1 .. NAME_LEN : chunk[i] = 0}
             end == IF nul = {} THEN NAME_LEN
                    ELSE (CHOOSE i \in nul : \A j \in nul : i <= j) - 1
             kind == from_raw(chunk[NAME_LEN + 9])
         IN  IF ~kind.some THEN None
             ELSE [name |-> SubSeq(chunk, 1, end),
                   start_block |->
                       from_le_bytes(SubSeq(chunk, NAME_LEN + 1, NAME_LEN + 4)),
                   length |->
                       from_le_bytes(SubSeq(chunk, NAME_LEN + 5, NAME_LEN + 8)),
                   kind |-> kind.kind]

\* The entries a sequence of chunks holds, in order.
RECURSIVE entries_of(_)
entries_of(cs) ==
    IF cs = << >> THEN << >>
    ELSE IF deserialize_entry(Head(cs)) = None THEN entries_of(Tail(cs))
    ELSE << deserialize_entry(Head(cs)) >> \o entries_of(Tail(cs))

\* The concatenation of a sequence of sequences.
RECURSIVE concat(_)
concat(ss) == IF ss = << >> THEN << >> ELSE Head(ss) \o concat(Tail(ss))

\* TinyFs::flush_superblock
flush_superblock(f) ==
    [f EXCEPT !.device[0] =
        to_le_bytes(f.superblock.magic) \o to_le_bytes(f.superblock.version)
          \o to_le_bytes(f.superblock.next_free_block)
          \o to_le_bytes(f.superblock.file_count) \o Zeros(BLOCK_SIZE - 16)]

\* TinyFs::flush_root_directory
flush_root_directory(f) ==
    LET n == Min(MAX_FILES, Len(f.root_entries))
        used == concat([i \in 1 .. n |-> write_entry(f.root_entries[i])])
    IN  [f EXCEPT !.device[DIR_BLOCK_INDEX] =
                      used \o Zeros(BLOCK_SIZE - Len(used))]

\* TinyFs::format_disk
format_disk(f) ==
    LET blank == [f EXCEPT !.device =
                     [b \in 0 .. (TotalBlocks - 1) |->
                         IF b < DATA_START_BLOCK THEN Zeros(BLOCK_SIZE)
                         ELSE f.device[b]],
                     !.superblock = [magic |-> MAGIC, version |-> VERSION,
                                     next_free_block |-> DATA_START_BLOCK,
                                     file_count |-> 0],
                     !.root_entries = << >>]
    IN  flush_superblock(flush_root_directory(blank))

\* TinyFs::parse_superblock
parse_superblock(buf) ==
    [magic |-> from_le_bytes(SubSeq(buf, 1, 4)),
     version |-> from_le_bytes(SubSeq(buf, 5, 8)),
     next_free_block |-> from_le_bytes(SubSeq(buf, 9, 12)),
     file_count |-> from_le_bytes(SubSeq(buf, 13, 16))]

\* TinyFs::load_root_directory
load_root_directory(f) ==
    [f EXCEPT !.root_entries =
        entries_of(SubSeq(chunks(f.device[DIR_BLOCK_INDEX], DIR_ENTRY_SIZE),
                          1, MAX_FILES))]

\* TinyFs::load_or_format
load_or_format(f) ==
    LET superblock == parse_superblock(f.device[0])
    IN  IF superblock.magic # MAGIC \/ superblock.version # VERSION
        THEN format_disk(f)
        ELSE load_root_directory([f EXCEPT !.superblock = superblock])

\* TinyFs::mount
mount(device) ==
    load_or_format([device |-> device,
                    superblock |-> [magic |-> 0, version |-> 0,
                                    next_free_block |-> 0, file_count |-> 0],
                    root_entries |-> << >>])

\* Result<(u32, u32), FsError>
Extent(start, length) ==
    [ok |-> TRUE, err |-> "none", start |-> start, length |-> length]
NoExtent(e) == [ok |-> FALSE, err |-> e, start |-> 0, length |-> 0]

\* A variant of allocate_blocks without the check against the device size.
allocate_blocks_unchecked(f, blocks) ==
    R([f EXCEPT !.superblock.next_free_block = @ + blocks],
      Extent(f.superblock.next_free_block, 0))

\* TinyFs::allocate_blocks
allocate_blocks(f, blocks) ==
    LET start == f.superblock.next_free_block
    IN  IF start + blocks > TotalBlocks THEN R(f, NoExtent("NoSpace"))
        ELSE R([f EXCEPT !.superblock.next_free_block = @ + blocks],
               Extent(start, 0))

\* TinyFs::allocate_and_write
allocate_and_write(f, contents) ==
    IF contents = << >> THEN R(f, Extent(0, 0))
    ELSE LET blocks_needed == (Len(contents) + BLOCK_SIZE - 1) \div BLOCK_SIZE
             a == allocate_blocks(f, blocks_needed)
             cs == chunks(contents, BLOCK_SIZE)
         IN  IF ~a.v.ok THEN a
             ELSE R([a.k EXCEPT !.device =
                        [b \in 0 .. (TotalBlocks - 1) |->
                            IF b >= a.v.start /\ b < a.v.start + Len(cs)
                            THEN cs[b - a.v.start + 1]
                                   \o Zeros(BLOCK_SIZE
                                              - Len(cs[b - a.v.start + 1]))
                            ELSE @[b]]],
                    Extent(a.v.start, Len(contents)))

\* TinyFs::read_data
RECURSIVE read_data(_, _, _)
read_data(f, start_block, length) ==
    IF length = 0 THEN << >>
    ELSE SubSeq(f.device[start_block], 1, Min(length, BLOCK_SIZE))
           \o read_data(f, start_block + 1, length - Min(length, BLOCK_SIZE))

\* TinyFs::read_directory_entries, for an entry of kind Directory
read_directory_entries(f, entry) ==
    IF entry.length = 0 THEN << >>
    ELSE entries_of(chunks(read_data(f, entry.start_block, entry.length),
                           DIR_ENTRY_SIZE))

\* TinyFs::write_directory_entries
write_directory_entries(f, entries) ==
    IF entries = << >> THEN R(f, Extent(0, 0))
    ELSE allocate_and_write(f,
             concat([i \in 1 .. Len(entries) |-> write_entry(entries[i])]))

\* TinyFs::split_path: the non-empty segments between the '/' bytes.
RECURSIVE split_from(_, _, _)
split_from(path, i, segment) ==
    LET done == IF segment = << >> THEN << >> ELSE << segment >>
    IN  IF i > Len(path) THEN done
        ELSE IF path[i] = 47 THEN done \o split_from(path, i + 1, << >>)
        ELSE split_from(path, i + 1, Append(segment, path[i]))

split_path(path) == split_from(path, 1, << >>)

\* Iterator::position: the first index holding the name, 0 for None.
position(entries, name) ==
    LET S == {i \in 1 .. Len(entries) : entries[i].name = name}
    IN  IF S = {} THEN 0 ELSE CHOOSE i \in S : \A j \in S : i <= j

LoadedDir(entries, entry_index_in_parent) ==
    [entries |-> entries, entry_index_in_parent |-> entry_index_in_parent]

\* TinyFs::load_directory_chain: the loop over the components.
RECURSIVE load_from(_, _, _)
load_from(f, chain, components) ==
    IF components = << >> THEN [ok |-> TRUE, err |-> "none", chain |-> chain]
    ELSE LET current == chain[Len(chain)]
             idx == position(current.entries, Head(components))
         IN  IF idx = 0
             THEN [ok |-> FALSE, err |-> "NotFound", chain |-> << >>]
             ELSE IF current.entries[idx].kind # "Directory"
             THEN [ok |-> FALSE, err |-> "NotADirectory", chain |-> << >>]
             ELSE load_from(f,
                      Append(chain,
                             LoadedDir(read_directory_entries(
                                           f, current.entries[idx]), idx)),
                      Tail(components))

load_directory_chain(f, components) ==
    load_from(f, << LoadedDir(f.root_entries, 0) >>, components)

\* TinyFs::persist_directory_chain: the loop from the deepest level up,
\* then the root directory and the superblock.
RECURSIVE persist_from(_, _, _)
persist_from(f, chain, level) ==
    IF level < 2
    THEN R(flush_superblock(flush_root_directory(
               [f EXCEPT !.root_entries = chain[1].entries,
                         !.superblock.file_count = Len(chain[1].entries)])),
           Ok(0))
    ELSE LET w == write_directory_entries(f, chain[level].entries)
             idx == chain[level].entry_index_in_parent
         IN  IF ~w.v.ok THEN R(w.k, Err(w.v.err))
             ELSE persist_from(w.k,
                      [chain EXCEPT
                         ![level - 1].entries[idx].start_block = w.v.start,
                         ![level - 1].entries[idx].length = w.v.length],
                      level - 1)

persist_directory_chain(f, chain) == persist_from(f, chain, Len(chain))

Dirs(components) == SubSeq(components, 1, Len(components) - 1)
Leaf(components) == components[Len(components)]

\* The chain with the entries of its last directory replaced.
WithLast(chain, entries) == [chain EXCEPT ![Len(chain)].entries = entries]

\* Vec::remove
RemoveAt(s, i) == SubSeq(s, 1, i - 1) \o SubSeq(s, i + 1, Len(s))

\* TinyFs::read_file_contents
read_file_contents(f, path) ==
    LET components == split_path(path)
        c == load_directory_chain(f, Dirs(components))
        entries == c.chain[Len(c.chain)].entries
        idx == position(entries, Leaf(components))
    IN  IF components = << >> THEN Err("InvalidPath")
        ELSE IF ~c.ok THEN Err(c.err)
        ELSE IF idx = 0 THEN Err("NotFound")
        ELSE IF entries[idx].kind # "File" THEN Err("NotADirectory")
        ELSE OkData(read_data(f, entries[idx].start_block, entries[idx].length))

\* TinyFs::list_directory: the names in order, a directory's followed by '/'.
list_directory(f, path) ==
    LET c == load_directory_chain(f, split_path(path))
        entries == c.chain[Len(c.chain)].entries
    IN  IF ~c.ok THEN [ok |-> FALSE, err |-> c.err, names |-> << >>]
        ELSE [ok |-> TRUE, err |-> "none",
              names |-> [i \in 1 .. Len(entries) |->
                           IF entries[i].kind = "File" THEN entries[i].name
                           ELSE Append(entries[i].name, 47)]]

\* TinyFs::write_file_contents
write_file_contents(f, path, contents) ==
    LET components == split_path(path)
        file_name == Leaf(components)
        c == load_directory_chain(f, Dirs(components))
        parent_is_root == Len(c.chain) = 1
        parent_entries == c.chain[Len(c.chain)].entries
        existing_index == position(parent_entries, file_name)
        w == allocate_and_write(f, contents)
    IN  IF components = << >> THEN R(f, Err("InvalidPath"))
        ELSE IF Len(file_name) > NAME_LEN THEN R(f, Err("NameTooLong"))
        ELSE IF ~c.ok THEN R(f, Err(c.err))
        ELSE IF existing_index = 0 /\ parent_is_root
                  /\ Len(parent_entries) >= MAX_FILES
        THEN R(f, Err("DirectoryFull"))
        ELSE IF ~w.v.ok THEN R(w.k, Err(w.v.err))
        ELSE IF existing_index # 0
        THEN IF parent_entries[existing_index].kind # "File"
             THEN R(w.k, Err("NotADirectory"))
             ELSE persist_directory_chain(w.k,
                      WithLast(c.chain,
                          [parent_entries EXCEPT
                             ![existing_index].start_block = w.v.start,
                             ![existing_index].length = w.v.length]))
        ELSE persist_directory_chain(w.k,
                 WithLast(c.chain,
                     Append(parent_entries,
                            [name |-> file_name, start_block |-> w.v.start,
                             length |-> w.v.length, kind |-> "File"])))

\* TinyFs::create_directory and TinyFs::create_file, which differ in the
\* kind of the entry they add.
create_entry(f, path, kind) ==
    LET components == split_path(path)
        name == Leaf(components)
        c == load_directory_chain(f, Dirs(components))
        parent_is_root == Len(c.chain) = 1
        parent_entries == c.chain[Len(c.chain)].entries
    IN  IF components = << >> THEN R(f, Err("InvalidPath"))
        ELSE IF Len(name) > NAME_LEN THEN R(f, Err("NameTooLong"))
        ELSE IF ~c.ok THEN R(f, Err(c.err))
        ELSE IF position(parent_entries, name) # 0
        THEN R(f, Err("AlreadyExists"))
        ELSE IF parent_is_root /\ Len(parent_entries) >= MAX_FILES
        THEN R(f, Err("DirectoryFull"))
        ELSE persist_directory_chain(f,
                 WithLast(c.chain,
                     Append(parent_entries,
                            [name |-> name, start_block |-> 0, length |-> 0,
                             kind |-> kind])))

\* TinyFs::create_directory
create_directory(f, path) == create_entry(f, path, "Directory")

\* TinyFs::create_file
create_file(f, path) == create_entry(f, path, "File")

\* TinyFs::remove_file
remove_file(f, path) ==
    LET components == split_path(path)
        c == load_directory_chain(f, Dirs(components))
        parent_entries == c.chain[Len(c.chain)].entries
        idx == position(parent_entries, Leaf(components))
    IN  IF components = << >> THEN R(f, Err("InvalidPath"))
        ELSE IF ~c.ok THEN R(f, Err(c.err))
        ELSE IF idx = 0 THEN R(f, Err("NotFound"))
        ELSE IF parent_entries[idx].kind # "File" THEN R(f, Err("IsDirectory"))
        ELSE persist_directory_chain(f,
                 WithLast(c.chain, RemoveAt(parent_entries, idx)))

\* TinyFs::remove_directory
remove_directory(f, path) ==
    LET components == split_path(path)
        c == load_directory_chain(f, Dirs(components))
        parent_entries == c.chain[Len(c.chain)].entries
        idx == position(parent_entries, Leaf(components))
    IN  IF components = << >> THEN R(f, Err("InvalidPath"))
        ELSE IF ~c.ok THEN R(f, Err(c.err))
        ELSE IF idx = 0 THEN R(f, Err("NotFound"))
        ELSE IF parent_entries[idx].kind # "Directory" THEN R(f, Err("IsFile"))
        ELSE IF read_directory_entries(f, parent_entries[idx]) # << >>
        THEN R(f, Err("DirectoryNotEmpty"))
        ELSE persist_directory_chain(f,
                 WithLast(c.chain, RemoveAt(parent_entries, idx)))

\* fs::init on a blank disk: the device is all zeroes and mount formats it.
fs_init == mount([b \in 0 .. (TotalBlocks - 1) |-> Zeros(BLOCK_SIZE)])


\* The history of the filesystem when nothing has been written.
NoFiles == [files |-> << >>, ops |-> 0, nul |-> FALSE]

(***************************************************************************)
(* The kernel as a state machine.                                          *)
(***************************************************************************)
K == [processes |-> processes, current_pid |-> current_pid,
      next_pid |-> next_pid, pipes |-> pipes, window |-> window,
      trap_frame |-> trap_frame, sepc |-> sepc, sscratch |-> sscratch,
      held |-> held, hung |-> hung]

Apply(k) ==
    /\ processes' = k.processes
    /\ current_pid' = k.current_pid
    /\ next_pid' = k.next_pid
    /\ pipes' = k.pipes
    /\ window' = k.window
    /\ trap_frame' = k.trap_frame
    /\ sepc' = k.sepc
    /\ sscratch' = k.sscratch
    /\ held' = k.held
    /\ hung' = k.hung

Pids == 1 .. MAX_PROCESSES

\* main.rs launch_user_shell: the kernel state when the shell first runs.
launch_user_shell ==
    LET empty == [processes |-> [s \in Slots |-> None],
                  current_pid |-> INVALID_PID, next_pid |-> 1,
                  pipes |-> [i \in PipeIds |-> None],
                  window |-> ZeroWindow,
                  trap_frame |-> [ra |-> 0, a0 |-> 0, a1 |-> 0, a2 |-> 0, a3 |-> 0],
                  sepc |-> 0, sscratch |-> 0, held |-> {}, hung |-> FALSE]
        program == load("sh").program
        b == build_user_stack(load_into_user_window(empty, program), << 7 >>)
        r == WithLockR(b.k, "PROCESS_TABLE",
               LAMBDA x : ProcessTable_spawn(x, program.entry, b.v.sp, with_standard,
                                             b.k.window, b.v.argc, b.v.argv_ptr))
        k1 == WithLock(r.k, "PROCESS_TABLE",
                LAMBDA x : restore_process_memory(
                              [x EXCEPT !.current_pid =
                                   get_all_processes(x.processes)[1].pid],
                              get_all_processes(x.processes)[1].pid))
    IN  \* enter_user_at(entry, sp, 0, 0)
        [k1 EXCEPT !.sepc = k1.processes[0].pc, !.sscratch = k1.processes[0].sp]

NoTrap == [pid |-> INVALID_PID, no |-> 0, fd |-> None, pre |-> None, n |-> 0,
           ret |-> 0, resumed |-> INVALID_PID, trapped_before |-> FALSE]

Init ==
    /\ processes = launch_user_shell.processes
    /\ current_pid = launch_user_shell.current_pid
    /\ next_pid = launch_user_shell.next_pid
    /\ pipes = launch_user_shell.pipes
    /\ window = launch_user_shell.window
    /\ trap_frame = launch_user_shell.trap_frame
    /\ sepc = launch_user_shell.sepc
    /\ sscratch = launch_user_shell.sscratch
    /\ held = launch_user_shell.held
    /\ hung = launch_user_shell.hung
    /\ h_expect = [p \in Pids |-> None]
    /\ h_last = NoTrap
    /\ h_in = << >>
    /\ h_out = << >>
    /\ h_traps = 0
    /\ u_prog = << >>
    /\ fs = fs_init
    /\ h_fs = NoFiles
    /\ h_load = None


\* The traps of one behaviour are counted up to MaxTraps.
Counted ==
    /\ h_traps < MaxTraps
    /\ h_traps' = h_traps + 1
    /\ UNCHANGED << h_in, h_out, u_prog, fsvars >>

\* The process in user mode can issue an ecall: the hart is not spinning in
\* the kernel, and a process that has exited parks itself (user.rs exit).
CanTrap ==
    /\ ~hung
    /\ current_pid # INVALID_PID
    /\ SlotOf(processes, current_pid) # -1
    /\ processes[SlotOf(processes, current_pid)].state # "Exited"

\* The descriptor the caller names, and the pipe behind it, before the trap.
FdOf(fd) ==
    IF fd \in FdNums
    THEN processes[SlotOf(processes, current_pid)].fd_table[fd] ELSE None

PipeOf(e) == IF e # None /\ e.kind = "Pipe" THEN pipes[e.pipe_id] ELSE None

\* One trap: the user side, handle_ecall, and the record of what happened.
Trap(no, a1, a2, a3, bytes, inbyte) ==
    LET caller == current_pid
        record(k1, k2) ==
            /\ Apply(k2)
            /\ h_expect' = IF k1.hung THEN h_expect
                           ELSE [h_expect EXCEPT ![caller] =
                                   [no |-> no, tf |-> k1.trap_frame,
                                    win |-> k1.window,
                                    pc |-> k1.sepc, sp |-> k1.sscratch]]
            /\ h_last' = [pid |-> caller, no |-> no,
                          fd |-> IF no \in {SYS_READ, SYS_WRITE} THEN FdOf(a1)
                                 ELSE None,
                          pre |-> IF no \in {SYS_READ, SYS_WRITE}
                                  THEN PipeOf(FdOf(a1)) ELSE None,
                          n |-> a3,
                          ret |-> k1.trap_frame.a0,
                          resumed |-> IF k2.current_pid # caller
                                      THEN k2.current_pid ELSE INVALID_PID,
                          trapped_before |->
                              /\ k2.current_pid # caller
                              /\ h_expect[k2.current_pid] # None]
    IN  record(ecall_dispatch(trap_entry(K, no, a1, a2, a3), bytes, inbyte),
               handle_ecall(trap_entry(K, no, a1, a2, a3), bytes, inbyte))

\* The bytes of a user buffer of length n.
Fill(n) == [i \in 1 .. n |-> 7]

\* The arguments user code passes: the standard descriptors and the two a
\* first pipe() returns, the shell's redirections, programs that exist and
\* one that does not.
ExitCodes == {3}
ReadFds == {0, 3, 4}
WriteFds == {1, 3, 4}
CloseFds == {0, 3, 4}
Dup2Pairs == {<< 3, 0 >>, << 4, 1 >>}
SpawnArgs == {<< "cat", << 2 >> >>, << "sh", << >> >>, << "nope", << >> >>}

SysWrite ==
    /\ CanTrap
    /\ Counted
    /\ \E fd \in WriteFds, len \in 0 .. MaxIo :
           Trap(SYS_WRITE, fd, 1, len, Fill(len), 0)

SysRead ==
    /\ CanTrap
    /\ Counted
    /\ \E fd \in ReadFds, len \in 0 .. MaxIo :
           Trap(SYS_READ, fd, 1, len, << >>, 9)

SysExit ==
    /\ CanTrap
    /\ Counted
    /\ \E code \in ExitCodes : Trap(SYS_EXIT, code, 0, 0, << >>, 0)

SysClose ==
    /\ CanTrap
    /\ Counted
    /\ \E fd \in CloseFds : Trap(SYS_CLOSE, fd, 0, 0, << >>, 0)

SysDup2 ==
    /\ CanTrap
    /\ Counted
    /\ \E p \in Dup2Pairs : Trap(SYS_DUP2, p[1], p[2], 0, << >>, 0)

SysPipe ==
    /\ CanTrap
    /\ Counted
    /\ Trap(SYS_PIPE, 1, 0, 0, << >>, 0)

SysSpawn ==
    /\ CanTrap
    /\ Counted
    /\ \E sa \in SpawnArgs : Trap(SYS_SPAWN, sa[1], Len(sa[1]), 1, sa[2], 0)

SysWait ==
    /\ CanTrap
    /\ Counted
    /\ Trap(SYS_WAIT, 1, 0, 0, << >>, 0)

Next ==
    \/ SysWrite
    \/ SysRead
    \/ SysExit
    \/ SysClose
    \/ SysDup2
    \/ SysPipe
    \/ SysSpawn
    \/ SysWait

Spec == Init /\ [][Next]_vars

\* C1: at most one process in the table is Running.
C1_AtMostOneRunning ==
    Cardinality({s \in Slots : processes[s] # None
                               /\ processes[s].state = "Running"}) <= 1

\* C2: no syscall path spins on a mutex it already holds.
C2_NoSelfDeadlock == ~hung


\* The last trap ended with a switch to a process that had trapped before.
Resumed ==
    /\ ~hung
    /\ h_last.resumed # INVALID_PID
    /\ h_last.trapped_before

\* C1 witness: one process is Running after a switch away from a process
\* that had itself been switched in earlier.
C1_Witness ==
    /\ \E s \in Slots : processes[s] # None /\ processes[s].state = "Running"
    /\ \E t \in Slots : /\ processes[t] # None
                        /\ processes[t].pid # current_pid
                        /\ processes[t].started
                        /\ processes[t].state = "Ready"

\* C3: a child's exit(c) completes so that the parent's wait can return it,
\* and a parent back in user mode after a successful spawn finds the child's
\* PID in a0.
C3_SpawnWaitAgree ==
    /\ (h_last.no = SYS_EXIT /\ h_last.pid # INVALID_PID) => ~hung
    /\ (Resumed /\ h_expect[h_last.resumed].no = SYS_SPAWN
          /\ h_expect[h_last.resumed].tf.a0 > 0)
         => trap_frame.a0 = h_expect[h_last.resumed].tf.a0

\* C4: a process that has run before resumes at its saved PC and SP with the
\* trap frame it trapped with, a0 holding its own syscall's return value.
C4_ResumeRestoresRegisters ==
    Resumed => /\ sepc = h_expect[h_last.resumed].pc
               /\ sscratch = h_expect[h_last.resumed].sp
               /\ trap_frame = h_expect[h_last.resumed].tf

\* C5: a process that has run before resumes with the user window holding
\* the bytes it held when the process last trapped, kernel writes of that
\* trap included.
C5_ResumeRestoresWindow ==
    Resumed => window = h_expect[h_last.resumed].win

\* C5 witness: a process resumes with its own window, which differs from the
\* window of the process that ran before it.
C5_Witness ==
    /\ Resumed
    /\ window = h_expect[h_last.resumed].win
    /\ window # h_expect[h_last.pid].win

\* The last trap was a read or write on a pipe descriptor that found the
\* pipe empty with its write end open, or full with its read end open.
PipeWouldBlock ==
    /\ h_last.pid # INVALID_PID
    /\ h_last.fd # None /\ h_last.fd.kind = "Pipe" /\ h_last.pre # None
    /\ \/ /\ h_last.no = SYS_READ
          /\ h_last.fd.is_read_end
          /\ h_last.pre.read_pos = h_last.pre.write_pos
          /\ h_last.pre.write_end_open
       \/ /\ h_last.no = SYS_WRITE
          /\ h_last.n > 0
          /\ ~h_last.fd.is_read_end
          /\ (h_last.pre.write_pos + 1) % PIPE_BUF_SIZE = h_last.pre.read_pos
          /\ h_last.pre.read_end_open

\* C9: when sys_read or sys_write on a pipe gets WouldBlock, the caller is in
\* the pipe's reader (writer) queue, is Blocked, and a0 was set to -11.
C9_WouldBlockQueuesCaller ==
    PipeWouldBlock =>
      LET q == IF h_last.no = SYS_READ
               THEN pipes[h_last.fd.pipe_id].waiting_readers
               ELSE pipes[h_last.fd.pipe_id].waiting_writers
      IN  /\ ~hung
          /\ \E i \in 1 .. Len(q) : q[i] = h_last.pid
          /\ processes[SlotOf(processes, h_last.pid)].state = "Blocked"
          /\ h_last.ret = EAGAIN

\* C9 witness: a write found the pipe full and the writer was queued.
C9_Witness ==
    /\ PipeWouldBlock
    /\ h_last.no = SYS_WRITE
    /\ processes[SlotOf(processes, h_last.pid)].state = "Blocked"


(***************************************************************************)
(* One pipe on its own: the PipeTable operations applied in any order to   *)
(* the pipe a first create_pipe makes, with no process waiting on it.  The *)
(* bytes written are numbered 1, 2, 3, ... in the order they are offered,  *)
(* so that a byte lost, duplicated or out of place shows in what is read.  *)
(* h_last records the operation, its argument, the pipe before it, the     *)
(* number of bytes stored before it and its result.                        *)
(***************************************************************************)
PipeInit ==
    /\ processes = launch_user_shell.processes
    /\ current_pid = launch_user_shell.current_pid
    /\ next_pid = launch_user_shell.next_pid
    /\ pipes = create_pipe(launch_user_shell).k.pipes
    /\ window = launch_user_shell.window
    /\ trap_frame = launch_user_shell.trap_frame
    /\ sepc = launch_user_shell.sepc
    /\ sscratch = launch_user_shell.sscratch
    /\ held = {}
    /\ hung = FALSE
    /\ h_expect = [p \in Pids |-> None]
    /\ h_last = [op |-> "none", n |-> 0, pre |-> None, stored |-> 0,
                 res |-> Ok(0)]
    /\ h_in = << >>
    /\ h_out = << >>
    /\ h_traps = 0
    /\ u_prog = << >>
    /\ fs = fs_init
    /\ h_fs = NoFiles
    /\ h_load = None

Offered(len) == [i \in 1 .. len |-> Len(h_in) + i]

PipeOp(op, n, r) ==
    /\ Apply(r.k)
    /\ h_last' = [op |-> op, n |-> n, pre |-> pipes[0],
                  stored |-> Len(h_in) - Len(h_out), res |-> r.v]
    /\ UNCHANGED << h_expect, h_traps, u_prog, fsvars >>

PWrite ==
    /\ pipes[0] # None
    /\ \E len \in 0 .. MaxPipeIo :
         /\ Len(h_in) + len <= MaxHist
         /\ LET r == WithLockR(K, "PIPE_TABLE",
                       LAMBDA x : PipeTable_write(x, 0, Offered(len)))
            IN  /\ PipeOp("write", len, r)
                /\ h_in' = IF r.v.ok
                           THEN h_in \o SubSeq(Offered(len), 1, r.v.val)
                           ELSE h_in
                /\ h_out' = h_out

PRead ==
    /\ pipes[0] # None
    /\ \E n \in 0 .. MaxPipeIo :
         LET r == WithLockR(K, "PIPE_TABLE", LAMBDA x : PipeTable_read(x, 0, n))
         IN  /\ PipeOp("read", n, r)
             /\ h_out' = h_out \o r.v.data
             /\ h_in' = h_in

PCloseEnd ==
    /\ pipes[0] # None
    /\ \E is_read_end \in BOOLEAN :
         /\ PipeOp("close", 0,
                   R(WithLock(K, "PIPE_TABLE",
                        LAMBDA x : close_pipe_end(x, 0, is_read_end)), Ok(0)))
         /\ UNCHANGED << h_in, h_out >>

PipeNext ==
    \/ PWrite
    \/ PRead
    \/ PCloseEnd

PipeSpec == PipeInit /\ [][PipeNext]_vars

\* C6: the bytes the reads returned, in order, are a prefix of the bytes the
\* writes accepted, in order.
C6_PipeFifo ==
    /\ Len(h_out) <= Len(h_in)
    /\ \A i \in 1 .. Len(h_out) : h_out[i] = h_in[i]

\* C6 witness: more bytes have been read than the ring has slots, so both
\* indices have wrapped around.
C6_Witness ==
    /\ Len(h_out) > PIPE_BUF_SIZE
    /\ h_last.op = "read" /\ h_last.res.val > 1
    /\ pipes[0].read_pos < h_last.pre.read_pos

\* C7: a read of up to n bytes gets WouldBlock from an empty pipe whose write
\* end is open, 0 from an empty pipe whose write end is closed, and otherwise
\* the min(n, stored) oldest bytes, which leave the buffer.
C7_PipeRead ==
    (h_last.op = "read" /\ h_last.pre # None) =>
      LET stored == h_last.stored
          res == h_last.res
      IN  /\ (stored = 0 /\ h_last.pre.write_end_open)
                => (res = Err("WouldBlock") /\ pipes[0] = h_last.pre)
          /\ (stored = 0 /\ ~h_last.pre.write_end_open)
                => (res = Ok(0) /\ pipes[0] = h_last.pre)
          /\ stored > 0
                => /\ res.ok
                   /\ res.val = Min(h_last.n, stored)
                   /\ res.data = SubSeq(h_in, Len(h_in) - stored + 1,
                                        Len(h_in) - stored + res.val)
                   /\ available(pipes[0]) = stored - res.val

\* C7 witness: bytes still buffered are delivered after the write end closed.
C7_Witness ==
    /\ h_last.op = "read" /\ h_last.pre # None
    /\ ~h_last.pre.write_end_open
    /\ h_last.stored > 1
    /\ h_last.res.ok /\ h_last.res.val > 0 /\ h_last.res.val < h_last.stored

\* C8: a write of n > 0 bytes gets BrokenPipe when the read end is closed,
\* full or not; WouldBlock when the read end is open and no byte fits; and
\* otherwise stores min(n, free) bytes.  The errors leave the pipe as it was.
C8_PipeWrite ==
    (h_last.op = "write" /\ h_last.pre # None /\ h_last.n > 0) =>
      LET free == (PIPE_BUF_SIZE - 1) - h_last.stored
          res == h_last.res
      IN  /\ ~h_last.pre.read_end_open
                => (res = Err("BrokenPipe") /\ pipes[0] = h_last.pre)
          /\ (h_last.pre.read_end_open /\ free = 0)
                => (res = Err("WouldBlock") /\ pipes[0] = h_last.pre)
          /\ (h_last.pre.read_end_open /\ free > 0)
                => /\ res.ok
                   /\ res.val = Min(h_last.n, free)
                   /\ available(pipes[0]) = h_last.stored + res.val

\* C8 witness: a write to a full pipe whose read end is closed gets
\* BrokenPipe.
C8_Witness ==
    /\ h_last.op = "write" /\ h_last.pre # None /\ h_last.n > 0
    /\ ~h_last.pre.read_end_open
    /\ h_last.stored = PIPE_BUF_SIZE - 1
    /\ h_last.res = Err("BrokenPipe")


(***************************************************************************)
(* Backpressure: two processes and one pipe.  The shell process (PID 1)    *)
(* makes the pipe and spawns a child, which inherits both ends; each       *)
(* closes the end it does not use; the writer sends the bytes 1 .. n with  *)
(* one call of the library write, the reader calls the library read with a *)
(* buffer of chunk bytes until it returns 0 or an error; each then closes  *)
(* its end, the child exits and the parent waits.  What a wrapper returns  *)
(* is what a0 holds when the process is next in user mode.  u_prog holds   *)
(* the parameters and, per process, the place in its program, with the     *)
(* writer's written_total, the bytes the reader has taken and the parity   *)
(* of the number of ecalls made.                                           *)
(***************************************************************************)
Writer == IF u_prog.parent_writes THEN 1 ELSE 2

ScenarioInit ==
    /\ processes = launch_user_shell.processes
    /\ current_pid = launch_user_shell.current_pid
    /\ next_pid = launch_user_shell.next_pid
    /\ pipes = launch_user_shell.pipes
    /\ window = launch_user_shell.window
    /\ trap_frame = launch_user_shell.trap_frame
    /\ sepc = launch_user_shell.sepc
    /\ sscratch = launch_user_shell.sscratch
    /\ held = {}
    /\ hung = FALSE
    /\ h_expect = [p \in Pids |-> None]
    /\ h_last = NoTrap
    /\ h_in = << >>
    /\ h_out = << >>
    /\ h_traps = 0
    /\ \E n \in PIPE_BUF_SIZE .. (PIPE_BUF_SIZE + 2), chunk \in 1 .. MaxIo,
          parent_writes \in BOOLEAN :
         u_prog = [n |-> n, chunk |-> chunk, parent_writes |-> parent_writes,
                   pc |-> << "start", "start" >>,
                   written_total |-> 0, write_ret |-> 0, got |-> << >>,
                   ecalls |-> 0]
    /\ fs = fs_init
    /\ h_fs = NoFiles
    /\ h_load = None

\* The value in a0 as the running process sees it.
ret == trap_frame.a0

\* The first len bytes of the reader's buffer.
Taken(len) == [i \in 1 .. len |-> IF i <= Len(window.buf) THEN window.buf[i]
                                  ELSE 0]

\* lib.rs write, the part after the ecall: the count taken from a0.
wrote == Min(ret, u_prog.n - u_prog.written_total)

\* The place of the running process in its program.
At(place) ==
    /\ CanTrap
    /\ current_pid \in {1, 2}
    /\ u_prog.pc[current_pid] = place

Goto(u, place) == [u EXCEPT !.pc[current_pid] = place]

\* An ecall of the running process: the registers it loads, the bytes at
\* its pointer, and where its program stands afterwards.
Call(no, a1, a2, a3, bytes, u) ==
    [no |-> no, a1 |-> a1, a2 |-> a2, a3 |-> a3, bytes |-> bytes, u |-> u]

Numbered(from, len) == [i \in 1 .. len |-> from + i]

\* sh: pipe(&mut fds)
PipeCalls ==
    IF At("start") /\ current_pid = 1
    THEN {Call(SYS_PIPE, 1, 0, 0, << >>, Goto(u_prog, "piped"))}
    ELSE {}

\* sh: spawn(path, argv)
SpawnCalls ==
    IF At("piped")
    THEN {Call(SYS_SPAWN, "cat", 3, 1, << >>, Goto(u_prog, "spawned"))}
    ELSE {}

\* Each side closes the end of the pipe it does not use.
CloseUnusedCalls ==
    IF At("spawned") \/ (At("start") /\ current_pid = 2)
    THEN {Call(SYS_CLOSE, IF current_pid = Writer THEN 3 ELSE 4, 0, 0, << >>,
               Goto(u_prog, "io"))}
    ELSE {}

\* lib.rs write: the first ecall, and the ecall of every further turn of the
\* loop (EAGAIN, or bytes left to send).
WriteCalls ==
    IF At("io") /\ current_pid = Writer
    THEN {Call(SYS_WRITE, 4, 1, u_prog.n, Numbered(0, u_prog.n),
               Goto(u_prog, "in_write"))}
    ELSE IF At("in_write") /\ ret = EAGAIN
    THEN {Call(SYS_WRITE, 4, 1, u_prog.n - u_prog.written_total,
               Numbered(u_prog.written_total,
                        u_prog.n - u_prog.written_total),
               u_prog)}
    ELSE IF At("in_write") /\ ret >= 0 /\ wrote > 0
            /\ u_prog.written_total + wrote < u_prog.n
    THEN {Call(SYS_WRITE, 4, 1, u_prog.n - (u_prog.written_total + wrote),
               Numbered(u_prog.written_total + wrote,
                        u_prog.n - (u_prog.written_total + wrote)),
               [u_prog EXCEPT !.written_total = @ + wrote])}
    ELSE {}

\* lib.rs read: the first ecall, the retry on EAGAIN, and the next call after
\* a read that returned bytes.
ReadCalls ==
    IF At("io") /\ current_pid # Writer
    THEN {Call(SYS_READ, 3, 1, u_prog.chunk, << >>, Goto(u_prog, "in_read"))}
    ELSE IF At("in_read") /\ ret = EAGAIN
    THEN {Call(SYS_READ, 3, 1, u_prog.chunk, << >>, u_prog)}
    ELSE IF At("in_read") /\ ret > 0
    THEN {Call(SYS_READ, 3, 1, u_prog.chunk, << >>,
               [u_prog EXCEPT !.got = @ \o Taken(ret)])}
    ELSE {}

\* write has returned (all sent, nothing accepted, or an error), or read has
\* returned 0 or an error: the process closes its end.
CloseOwnCalls ==
    IF /\ At("in_write")
       /\ ret # EAGAIN
       /\ ret < 0 \/ wrote = 0 \/ u_prog.written_total + wrote >= u_prog.n
    THEN {Call(SYS_CLOSE, 4, 0, 0, << >>,
               Goto([u_prog EXCEPT
                       !.written_total = IF ret < 0 THEN @ ELSE @ + wrote,
                       !.write_ret = IF ret < 0 /\ u_prog.written_total = 0
                                     THEN ret
                                     ELSE IF ret < 0 THEN u_prog.written_total
                                     ELSE u_prog.written_total + wrote],
                    "finished"))}
    ELSE IF At("in_read") /\ ret # EAGAIN /\ ret <= 0
    THEN {Call(SYS_CLOSE, 3, 0, 0, << >>, Goto(u_prog, "finished"))}
    ELSE {}

\* The child exits; the parent waits for it (lib.rs wait: again on EAGAIN).
FinishCalls ==
    IF At("finished") \/ (At("in_wait") /\ ret = EAGAIN)
    THEN {Call(IF current_pid = 2 THEN SYS_EXIT ELSE SYS_WAIT,
               IF current_pid = 2 THEN 0 ELSE 1, 0, 0, << >>,
               Goto(u_prog, IF current_pid = 2 THEN "exited" ELSE "in_wait"))}
    ELSE {}

Made(u) == [u EXCEPT !.ecalls = 1 - @]

\* The ecall is taken and handled.
Run(c) ==
    /\ Trap(c.no, c.a1, c.a2, c.a3, c.bytes, 0)
    /\ u_prog' = Made(c.u)
    /\ UNCHANGED fsvars
    /\ UNCHANGED << h_in, h_out, h_traps >>

UPipe == \E c \in PipeCalls : Run(c)

USpawn == \E c \in SpawnCalls : Run(c)

UCloseUnused == \E c \in CloseUnusedCalls : Run(c)

UWrite == \E c \in WriteCalls : Run(c)

URead == \E c \in ReadCalls : Run(c)

UCloseOwn == \E c \in CloseOwnCalls : Run(c)

UFinish == \E c \in FinishCalls : Run(c)

ScenarioNext ==
    \/ UPipe
    \/ USpawn
    \/ UCloseUnused
    \/ UWrite
    \/ URead
    \/ UCloseOwn
    \/ UFinish

\* The process in user mode goes on to its next ecall.
UserStep ==
    \E c \in PipeCalls \cup SpawnCalls \cup CloseUnusedCalls \cup WriteCalls
             \cup ReadCalls \cup CloseOwnCalls \cup FinishCalls :
        u_prog' = Made(c.u)

\* Cooperative scheduling: a process that is in user mode and has an ecall
\* to make makes it, and the trap is handled.
BackpressureSpec ==
    ScenarioInit /\ [][ScenarioNext]_vars /\ WF_u_prog(UserStep)

\* Both sides have finished their transfer and the reader has taken exactly
\* the n bytes, in order.
TransferDone ==
    /\ u_prog.pc[1] \in {"finished", "in_wait"}
    /\ u_prog.pc[2] \in {"finished", "exited"}
    /\ u_prog.write_ret = u_prog.n
    /\ u_prog.got = [i \in 1 .. u_prog.n |-> i]

\* C10: the writer and the reader both eventually finish, and the reader has
\* received exactly the n bytes in the original order.
C10_BackpressureTerminates == <>TransferDone

(***************************************************************************)
(* Properties of single traps, stated on the step: the unprimed variables  *)
(* are the kernel before the trap and the primed ones the kernel when the  *)
(* trap returns (or where the hart spins).                                 *)
(***************************************************************************)
\* The step releases the last descriptor of one end of pipe i.
ReleasedLast(i, is_read_end) ==
    /\ pipes[i] # None
    /\ IF is_read_end THEN pipes[i].read_refcount > 0
       ELSE pipes[i].write_refcount > 0
    /\ \/ pipes'[i] = None
       \/ IF is_read_end THEN pipes'[i].read_refcount = 0
          ELSE pipes'[i].write_refcount = 0

\* None of the PIDs queued in q is Blocked after the step.
AllWoken(q) ==
    \A j \in 1 .. Len(q) :
        SlotOf(processes', q[j]) # -1
            => processes'[SlotOf(processes', q[j])].state # "Blocked"

\* C11: when the last descriptor of a pipe's write (read) end is released,
\* the end is marked closed and every process queued as a blocked reader
\* (writer) of that pipe is no longer Blocked when the trap returns.
C11_LastReleaseWakes ==
    [][\A i \in PipeIds :
         /\ (ReleasedLast(i, FALSE) /\ pipes[i].waiting_readers # << >>)
              => /\ ~hung'
                 /\ pipes'[i] = None \/ ~pipes'[i].write_end_open
                 /\ AllWoken(pipes[i].waiting_readers)
         /\ (ReleasedLast(i, TRUE) /\ pipes[i].waiting_writers # << >>)
              => /\ ~hung'
                 /\ pipes'[i] = None \/ ~pipes'[i].read_end_open
                 /\ AllWoken(pipes[i].waiting_writers)]_vars

\* C12: every live pipe has read_end_open exactly when read_refcount > 0 and
\* write_end_open exactly when write_refcount > 0.
C12_EndOpenIffRefcount ==
    \A i \in PipeIds :
        pipes[i] # None =>
            /\ pipes[i].read_end_open <=> (pipes[i].read_refcount > 0)
            /\ pipes[i].write_end_open <=> (pipes[i].write_refcount > 0)

\* C12 witness: a live pipe whose write end is closed while two descriptors
\* still hold its read end.
C12_Witness ==
    \E i \in PipeIds :
        /\ pipes[i] # None
        /\ ~pipes[i].write_end_open /\ pipes[i].write_refcount = 0
        /\ pipes[i].read_end_open /\ pipes[i].read_refcount >= 2

\* C13: a pipe never stores more than PIPE_BUF_SIZE - 1 bytes, its indices
\* are equal exactly when it stores none, and one write into an empty pipe
\* accepts at most PIPE_BUF_SIZE - 1 bytes.
C13_AtMostCapacityMinusOne ==
    /\ Len(h_in) - Len(h_out) <= PIPE_BUF_SIZE - 1
    /\ pipes[0] # None =>
         ((pipes[0].read_pos = pipes[0].write_pos) <=> (Len(h_in) = Len(h_out)))
    /\ (h_last.op = "write" /\ h_last.stored = 0 /\ h_last.res.ok)
         => h_last.res.val <= PIPE_BUF_SIZE - 1

\* C13 witness: a write of more than the capacity into an empty pipe whose
\* indices are in mid-ring is cut to PIPE_BUF_SIZE - 1 bytes.
C13_Witness ==
    /\ h_last.op = "write" /\ h_last.pre # None
    /\ h_last.stored = 0 /\ h_last.pre.read_pos > 0
    /\ h_last.n > PIPE_BUF_SIZE
    /\ h_last.res.ok /\ h_last.res.val = PIPE_BUF_SIZE - 1

\* The number of descriptors in fds that reference the given end of pipe i.
Refs(fds, i, is_read_end) ==
    Cardinality({n \in FdNums : fds[n] = PipeFd(i, is_read_end)})

\* The step is a trap of the running process with the given syscall number.
TrapOf(no) == h_traps' = h_traps + 1 /\ h_last'.no = no

\* The refcount of one end of a pipe, 0 for a freed slot.
Refcount(p, is_read_end) ==
    IF p = None THEN 0
    ELSE IF is_read_end THEN p.read_refcount ELSE p.write_refcount

\* C14: when a process calls exit(code), then when its trap returns every
\* descriptor of its table is closed, each pipe end's refcount has dropped by
\* the number of its descriptors that referenced it, the process is Exited
\* with exit_code = code, and its parent, if it was Blocked, no longer is.
C14_ExitCompletes ==
    [][TrapOf(SYS_EXIT) =>
         LET s == SlotOf(processes, current_pid)
             fds == processes[s].fd_table
             ps == SlotOf(processes, processes[s].parent_pid)
         IN  /\ ~hung'
             /\ processes'[s] # None
             /\ processes'[s].state = "Exited"
             /\ processes'[s].exit_code = h_last'.ret
             /\ \A n \in FdNums : processes'[s].fd_table[n] = None
             /\ \A i \in PipeIds, e \in BOOLEAN :
                  pipes[i] # None =>
                    Refcount(pipes'[i], e) = Refcount(pipes[i], e) - Refs(fds, i, e)
             /\ (ps # -1 /\ processes[ps].state = "Blocked")
                  => processes'[ps].state # "Blocked"]_vars

\* C15: a process that has exited is not the process running in user mode.
C15_ExitedNeverRuns ==
    (~hung /\ current_pid # INVALID_PID /\ SlotOf(processes, current_pid) # -1)
        => processes[SlotOf(processes, current_pid)].state # "Exited"

\* The children of pid: their slots.
Children(pid) ==
    {s \in Slots : processes[s] # None /\ processes[s].parent_pid = pid}

\* sys_wait as the caller observes it: ECHILD without children; an Exited
\* child's PID, with its code stored and its slot freed; else EAGAIN with the
\* caller Blocked.
WaitAnswers ==
    TrapOf(SYS_WAIT) =>
        LET p == current_pid
            exited == {s \in Children(p) : processes[s].state = "Exited"}
        IN  /\ ~hung'
            /\ Children(p) = {} =>
                 /\ h_last'.ret = ECHILD
                 /\ \A s \in Slots : processes[s] # None => processes'[s] # None
            /\ exited # {} =>
                 \E s \in exited :
                    /\ h_last'.ret = processes[s].pid
                    /\ h_expect'[p].win.buf = << processes[s].exit_code >>
                    /\ processes'[s] = None
            /\ (Children(p) # {} /\ exited = {}) =>
                 /\ h_last'.ret = EAGAIN
                 /\ processes'[SlotOf(processes', p)].state = "Blocked"

\* C16: sys_wait answers as above, and a child that has exited can be
\* waited for: the kernel is still serving traps.
C16_WaitReaps ==
    /\ [][WaitAnswers]_vars
    /\ [](\A s \in Slots :
            (processes[s] # None /\ processes[s].state = "Exited"
               /\ processes[s].parent_pid # INVALID_PID) => ~hung)

\* C17: every Exited process can still be reaped: the kernel serves traps
\* and a process that ProcessTable::wait would reap it for is live.
C17_ExitedIsReaped ==
    \A s \in Slots :
        (processes[s] # None /\ processes[s].state = "Exited") =>
            /\ ~hung
            /\ \E t \in Slots : /\ processes[t] # None
                                /\ processes[t].pid = processes[s].parent_pid
                                /\ processes[t].state # "Exited"

\* The slots that hold a process after the step which they did not hold
\* before it.
NewSlots ==
    {s \in Slots : /\ processes'[s] # None
                   /\ processes[s] = None \/ processes[s].pid # processes'[s].pid}

(***************************************************************************)
(* The process table on its own: ProcessTable::spawn, exit_process, wait   *)
(* and set_current applied in any order to the table launch_user_shell     *)
(* leaves, with no pipe open.  h_in lists the PIDs spawn has handed out,   *)
(* in order; h_last records the last operation and its result.             *)
(***************************************************************************)
MaxSpawns == 6

TableInit ==
    /\ processes = launch_user_shell.processes
    /\ current_pid = launch_user_shell.current_pid
    /\ next_pid = launch_user_shell.next_pid
    /\ pipes = launch_user_shell.pipes
    /\ window = launch_user_shell.window
    /\ trap_frame = launch_user_shell.trap_frame
    /\ sepc = launch_user_shell.sepc
    /\ sscratch = launch_user_shell.sscratch
    /\ held = {}
    /\ hung = FALSE
    /\ h_expect = [p \in Pids |-> None]
    /\ h_last = [op |-> "spawn", slot |-> 0, pid |-> 1, reused |-> FALSE]
    /\ h_in = << 1 >>
    /\ h_out = << >>
    /\ h_traps = 0
    /\ u_prog = << >>
    /\ fs = fs_init
    /\ h_fs = NoFiles
    /\ h_load = None

TSpawn ==
    /\ Len(h_in) < MaxSpawns
    /\ LET r == WithLockR(K, "PROCESS_TABLE",
                  LAMBDA x : ProcessTable_spawn(x, 0, 0, with_standard,
                                                ZeroWindow, 0, 0))
           slot == find_free_slot(processes)
       IN  /\ Apply(r.k)
           /\ h_in' = IF r.v.ok THEN Append(h_in, r.v.val) ELSE h_in
           /\ h_last' = [op |-> IF r.v.ok THEN "spawn" ELSE "full",
                         slot |-> slot, pid |-> r.v.val,
                         reused |-> r.v.ok /\ r.v.val > MAX_PROCESSES]
    /\ UNCHANGED << h_expect, h_out, h_traps, u_prog, fsvars >>

TExit ==
    /\ \E s \in Slots, code \in ExitCodes :
         /\ processes[s] # None
         /\ processes[s].state # "Exited"
         /\ Apply(WithLock(K, "PROCESS_TABLE",
                   LAMBDA x : exit_process(x, processes[s].pid, code)))
         /\ h_last' = [op |-> "exit", slot |-> s, pid |-> processes[s].pid,
                       reused |-> FALSE]
    /\ UNCHANGED << h_expect, h_in, h_out, h_traps, u_prog, fsvars >>

TWait ==
    /\ \E s \in Slots :
         /\ processes[s] # None
         /\ LET r == WithLockR(K, "PROCESS_TABLE",
                       LAMBDA x : ProcessTable_wait(x, processes[s].pid))
            IN  /\ Apply(r.k)
                /\ h_last' = [op |-> IF r.v.found THEN "reap" ELSE "wait",
                              slot |-> s, pid |-> r.v.pid, reused |-> FALSE]
    /\ UNCHANGED << h_expect, h_in, h_out, h_traps, u_prog, fsvars >>

TSetCurrent ==
    /\ \E s \in Slots :
         /\ processes[s] # None
         /\ processes[s].state # "Exited"
         /\ processes[s].pid # current_pid
         /\ Apply([K EXCEPT !.current_pid = processes[s].pid])
         /\ h_last' = [op |-> "current", slot |-> s, pid |-> processes[s].pid,
                       reused |-> FALSE]
    /\ UNCHANGED << h_expect, h_in, h_out, h_traps, u_prog, fsvars >>

TableNext ==
    \/ TSpawn
    \/ TExit
    \/ TWait
    \/ TSetCurrent

ProcTableSpec == TableInit /\ [][TableNext]_vars

\* C18: the k-th PID spawn hands out is k, so the PIDs handed out start at
\* 1 and strictly increase; the next one is next_pid; the processes in the
\* table have distinct PIDs, all of them handed out by spawn.
C18_PidsIncrease ==
    /\ \A j \in 1 .. Len(h_in) : h_in[j] = j
    /\ next_pid = Len(h_in) + 1
    /\ \A s, t \in Slots :
         processes[s] # None =>
           /\ processes[s].pid \in 1 .. Len(h_in)
           /\ (t # s /\ processes[t] # None)
                => processes[t].pid # processes[s].pid

\* C18 witness: spawn has put a process into a slot that wait had freed,
\* and the table holds MAX_PROCESSES processes again.
C18_Witness ==
    /\ h_last.op = "spawn" /\ h_last.reused
    /\ \A s \in Slots : processes[s] # None
    /\ Len(h_in) = MaxSpawns

\* sys_spawn leaves the child it created Ready.
ChildReadyAtReturn ==
    CanTrap =>
      \A sa \in SpawnArgs :
        LET r == sys_spawn(trap_entry(K, SYS_SPAWN, sa[1], Len(sa[1]), 1), sa[2])
        IN  (~r.k.hung /\ r.v.ok) =>
              r.k.processes[SlotOf(r.k.processes, r.v.val)].state = "Ready"

\* C19: a successful spawn adds exactly one process: it is Ready (Running
\* once maybe_switch has chosen it in the same trap), its parent is the
\* caller and its fd table equals the caller's; every pipe end's refcount
\* grows by the number of caller descriptors referencing it; the fd tables of
\* the caller and of every other process are unchanged.
C19_SpawnInherits ==
    /\ []ChildReadyAtReturn
    /\ [][(TrapOf(SYS_SPAWN) /\ h_last'.ret > 0) =>
            LET s == SlotOf(processes, current_pid)
                fds == processes[s].fd_table
            IN  /\ ~hung'
                /\ Cardinality(NewSlots) = 1
                /\ \A c \in NewSlots :
                     /\ processes'[c].pid = h_last'.ret
                     /\ processes'[c].parent_pid = current_pid
                     /\ processes'[c].fd_table = fds
                     /\ processes'[c].state =
                          IF current_pid' = processes'[c].pid THEN "Running"
                          ELSE "Ready"
                /\ \A t \in Slots \ NewSlots :
                     /\ (processes[t] = None) <=> (processes'[t] = None)
                     /\ processes[t] # None
                          => processes'[t].fd_table = processes[t].fd_table
                /\ \A i \in PipeIds, e \in BOOLEAN :
                     Refcount(pipes'[i], e)
                        = Refcount(pipes[i], e) + Refs(fds, i, e)]_vars

\* C19 witness: a process holding both ends of a pipe has spawned a child,
\* which holds them too.
C19_Witness ==
    /\ ~hung
    /\ h_last.no = SYS_SPAWN /\ h_last.ret > 0
    /\ SlotOf(processes, h_last.ret) # -1
    /\ \E i \in PipeIds :
         /\ pipes[i] # None
         /\ pipes[i].read_refcount = 2 /\ pipes[i].write_refcount = 2
         /\ Refs(processes[SlotOf(processes, h_last.ret)].fd_table, i, TRUE) = 1
         /\ Refs(processes[SlotOf(processes, h_last.pid)].fd_table, i, TRUE) = 1

(***************************************************************************)
(* The filesystem on its own: fs::write_file, create_file, mkdir,          *)
(* remove_file, remove_directory and format applied in any order to the    *)
(* filesystem fs::init mounts on a blank disk.  h_fs.files maps the        *)
(* components of a path to the bytes of the last successful write to it,   *)
(* None before the first write and after a remove_file or a format;        *)
(* h_fs.ops counts the operations, of which there are at most MaxFsOps;     *)
(* h_fs.nul tells that a name holding a NUL byte has been stored since the *)
(* last format.                                                            *)
(***************************************************************************)
\* "a", "b", "d", "/a//", "d/a", "d/b", "d/e", "d/e/a", two names with a
\* NUL ("d/a" and "b", each followed by the byte 0), a name longer than
\* NAME_LEN, and "".
Paths ==
    { << 97 >>, << 98 >>, << 100 >>, << 47, 97, 47, 47 >>,
      << 100, 47, 97 >>, << 100, 47, 98 >>, << 100, 47, 101 >>,
      << 100, 47, 101, 47, 97 >>, << 100, 47, 97, 0 >>, << 98, 0 >>,
      << 97, 97, 97 >>, << >> }

FileKeys == {split_path(p) : p \in Paths}

Bytes(tag, len) == [i \in 1 .. len |-> (16 * tag + i) % 256]

\* What is written: nothing, one byte or another, a block and a byte, and
\* all the data blocks of the device.
Contents ==
    {Bytes(1, len) : len \in {0, 1, BLOCK_SIZE + 1,
                              (TotalBlocks - DATA_START_BLOCK) * BLOCK_SIZE}}
      \cup {Bytes(2, 1)}

MaxFsOps == 5

Written(bytes) == [kind |-> "Written", bytes |-> bytes]

FsInit ==
    /\ processes = launch_user_shell.processes
    /\ current_pid = launch_user_shell.current_pid
    /\ next_pid = launch_user_shell.next_pid
    /\ pipes = launch_user_shell.pipes
    /\ window = launch_user_shell.window
    /\ trap_frame = launch_user_shell.trap_frame
    /\ sepc = launch_user_shell.sepc
    /\ sscratch = launch_user_shell.sscratch
    /\ held = {}
    /\ hung = FALSE
    /\ h_expect = [p \in Pids |-> None]
    /\ h_last = NoTrap
    /\ h_in = << >>
    /\ h_out = << >>
    /\ h_traps = 0
    /\ u_prog = << >>
    /\ fs = fs_init
    /\ h_fs = [files |-> [key \in FileKeys |-> None], ops |-> 0, nul |-> FALSE]
    /\ h_load = None

NulFree(path) == \A i \in 1 .. Len(path) : path[i] # 0

FsOp(path, r, files) ==
    /\ h_fs.ops < MaxFsOps
    /\ fs' = r.k
    /\ h_fs' = [files |-> files, ops |-> h_fs.ops + 1,
                nul |-> h_fs.nul \/ (r.v.ok /\ ~NulFree(path))]

FsWrite ==
    /\ \E path \in Paths, contents \in Contents :
         LET r == write_file_contents(fs, path, contents)
         IN  FsOp(path, r,
              IF r.v.ok
              THEN [h_fs.files EXCEPT ![split_path(path)] = Written(contents)]
              ELSE h_fs.files)
    /\ UNCHANGED << kvars, hvars, u_prog, h_load >>

FsCreateFile ==
    /\ \E path \in Paths :
         FsOp(path, create_file(fs, path), h_fs.files)
    /\ UNCHANGED << kvars, hvars, u_prog, h_load >>

FsMkdir ==
    /\ \E path \in Paths :
         FsOp(path, create_directory(fs, path), h_fs.files)
    /\ UNCHANGED << kvars, hvars, u_prog, h_load >>

FsRemoveFile ==
    /\ \E path \in Paths :
         LET r == remove_file(fs, path)
         IN  FsOp(<< >>, r,
                  IF r.v.ok THEN [h_fs.files EXCEPT ![split_path(path)] = None]
                  ELSE h_fs.files)
    /\ UNCHANGED << kvars, hvars, u_prog, h_load >>

FsRemoveDirectory ==
    /\ \E path \in Paths :
         FsOp(<< >>, remove_directory(fs, path), h_fs.files)
    /\ UNCHANGED << kvars, hvars, u_prog, h_load >>

FsFormat ==
    /\ h_fs.ops < MaxFsOps
    /\ fs' = format_disk(fs)
    /\ h_fs' = [files |-> [key \in FileKeys |-> None], ops |-> h_fs.ops + 1,
                nul |-> FALSE]
    /\ UNCHANGED << kvars, hvars, u_prog, h_load >>

\* The kernel boots again over the same disk: fs::init mounts the device.
FsRemount ==
    /\ h_fs.ops < MaxFsOps
    /\ fs' = mount(fs.device)
    /\ h_fs' = [h_fs EXCEPT !.ops = @ + 1]
    /\ UNCHANGED << kvars, hvars, u_prog, h_load >>

FsNext ==
    \/ FsRemount
    \/ FsWrite
    \/ FsCreateFile
    \/ FsMkdir
    \/ FsRemoveFile
    \/ FsRemoveDirectory
    \/ FsFormat

FsSpec == FsInit /\ [][FsNext]_vars

\* C20: a path whose last successful write stored the bytes B, with no
\* remove of it and no format since, reads as exactly B.
C20_ReadReturnsWritten ==
    \A path \in Paths :
      h_fs.files[split_path(path)] # None =>
        LET r == read_file_contents(fs, path)
        IN  r.ok /\ r.data = h_fs.files[split_path(path)].bytes

\* The same while no name holding a NUL byte has been stored.
ReadReturnsWrittenNulFree == ~h_fs.nul => C20_ReadReturnsWritten

\* What the filesystem f shows: the listing of every path and the bytes of
\* every path, or the error that asking for them gives.
Shown(f, paths) ==
    [path \in paths |-> [list |-> list_directory(f, path),
                         read |-> read_file_contents(f, path)]]

\* C21: mounting the device again does not format it and shows the same
\* listing for every directory and the same bytes for every file.
C21_RemountPreserves ==
    /\ parse_superblock(fs.device[0]).magic = MAGIC
    /\ parse_superblock(fs.device[0]).version = VERSION
    /\ Shown(mount(fs.device), Paths) = Shown(fs, Paths)

\* The same while no name holding a NUL byte has been stored.
RemountPreservesNulFree == ~h_fs.nul => C21_RemountPreserves

\* The entry a path names in f: its kind, "Absent" when the directory
\* holding it has no entry of that name, "NoParent" when the path is empty
\* or that directory does not resolve.
EntryAt(f, path) ==
    LET components == split_path(path)
        c == load_directory_chain(f, Dirs(components))
        entries == c.chain[Len(c.chain)].entries
        idx == position(entries, Leaf(components))
    IN  IF components = << >> THEN "NoParent"
        ELSE IF ~c.ok THEN "NoParent"
        ELSE IF idx = 0 THEN "Absent"
        ELSE entries[idx].kind

\* The path of the directory holding the entry a path names.
RECURSIVE ParentPath(_)
ParentPath(path) ==
    IF path = << >> THEN << >>
    ELSE IF path[Len(path)] = 47 THEN ParentPath(SubSeq(path, 1, Len(path) - 1))
    ELSE IF \A i \in 1 .. Len(path) : path[i] # 47 THEN << >>
    ELSE LET cut == CHOOSE i \in 1 .. Len(path) :
                      /\ path[i] = 47
                      /\ \A j \in (i + 1) .. Len(path) : path[j] # 47
         IN  SubSeq(path, 1, cut - 1)

\* The bytes of the file at a path and the names of the directory at a path,
\* whatever the error is where the path names no file or no directory.
BytesAt(f, q) ==
    [ok |-> read_file_contents(f, q).ok, data |-> read_file_contents(f, q).data]
NamesAt(f, q) ==
    [ok |-> list_directory(f, q).ok, names |-> list_directory(f, q).names]

\* The filesystem g shows what f shows with the entry of path gone: the path
\* no longer resolves, its directory lists the other names, and every other
\* path lists and reads as before.
Removed(f, g, path) ==
    /\ EntryAt(g, path) = "Absent"
    /\ ~read_file_contents(g, path).ok
    /\ ~list_directory(g, path).ok
    /\ \A q \in Paths :
         split_path(q) # split_path(path) =>
           /\ BytesAt(g, q) = BytesAt(f, q)
           /\ split_path(q) # split_path(ParentPath(path))
                => NamesAt(g, q) = NamesAt(f, q)
    /\ LET before == list_directory(f, ParentPath(path)).names
           after == list_directory(g, ParentPath(path)).names
       IN  /\ Len(after) = Len(before) - 1
           /\ \E i \in 1 .. Len(before) : after = RemoveAt(before, i)

\* What remove_file and remove_directory answer for a path, given the entry
\* it names.
RemovesRight(path) ==
    LET e == EntryAt(fs, path)
        rf == remove_file(fs, path)
        rd == remove_directory(fs, path)
    IN  /\ rf.v.ok => e = "File" /\ Removed(fs, rf.k, path)
        /\ e = "Directory" => rf.v = Err("IsDirectory")
        /\ e = "Absent" => rf.v = Err("NotFound")
        /\ rd.v.ok => /\ e = "Directory"
                      /\ list_directory(fs, path).names = << >>
                      /\ Removed(fs, rd.k, path)
        /\ e = "File" => rd.v = Err("IsFile")
        /\ e = "Absent" => rd.v = Err("NotFound")
        /\ (e = "Directory" /\ list_directory(fs, path).names # << >>)
             => rd.v = Err("DirectoryNotEmpty")

\* C22: remove_file succeeds only on a file (IsDirectory on a directory,
\* NotFound on an absent entry) and remove_directory only on a directory
\* without children (IsFile, DirectoryNotEmpty, NotFound); after a removal
\* the path no longer resolves and everything else is as before.
C22_RemovesOnlyTheEntry == \A path \in Paths : RemovesRight(path)

\* The same while no name holding a NUL byte has been stored.
RemovesOnlyTheEntryNulFree == ~h_fs.nul => C22_RemovesOnlyTheEntry


\* ---------------------------------------------------------------------
\* dup2
\* ---------------------------------------------------------------------

\* The descriptor numbers a program can pass: every slot and one beyond.
Dup2Fds == 0 .. MAX_FDS

\* 1 if the descriptor fd is the given end of pipe i, else 0.
IsEnd(fd, i, is_read_end) == IF fd = PipeFd(i, is_read_end) THEN 1 ELSE 0

\* What sys_dup2(old_fd, new_fd), applied by the current process to the
\* present state and leaving the kernel state and result r, must have done.
Dup2Done(r, old_fd, new_fd) ==
    LET s == SlotOf(processes, current_pid)
        fds == processes[s].fd_table
        open == old_fd < MAX_FDS /\ new_fd < MAX_FDS /\ fds[old_fd] # None
    IN  /\ \A t \in Slots \ {s} :
             processes[t] # None
               => r.k.processes[t].fd_table = processes[t].fd_table
        /\ open =>
             /\ r.v = Ok(new_fd)
             /\ r.k.processes[s].fd_table = [fds EXCEPT ![new_fd] = fds[old_fd]]
             /\ \A i \in PipeIds, e \in BOOLEAN :
                  Refcount(r.k.pipes[i], e)
                    = Refcount(pipes[i], e) + IsEnd(fds[old_fd], i, e)
                                            - IsEnd(fds[new_fd], i, e)
        /\ ~open =>
             /\ r.v = Err("BadFd")
             /\ r.k.processes[s].fd_table = fds
             /\ \A i \in PipeIds, e \in BOOLEAN :
                  Refcount(r.k.pipes[i], e) = Refcount(pipes[i], e)

\* C23: dup2(old, new) with old open leaves slot old unchanged and makes slot
\* new hold a descriptor equal to slot old's, closing what slot new held; the
\* refcount of the duplicated pipe end is one higher and that of a pipe end
\* previously in slot new one lower, with no net change when old = new; with
\* old not open, or old or new out of range, it returns BadFd and the fd
\* table and all refcounts are unchanged.
C23_Dup2 ==
    CanTrap =>
      \A old_fd \in Dup2Fds, new_fd \in Dup2Fds :
        Dup2Done(sys_dup2(trap_entry(K, SYS_DUP2, old_fd, new_fd, 0)),
                 old_fd, new_fd)

\* The same for the calls that return to the caller.
Dup2WhenReturns ==
    CanTrap =>
      \A old_fd \in Dup2Fds, new_fd \in Dup2Fds :
        LET r == sys_dup2(trap_entry(K, SYS_DUP2, old_fd, new_fd, 0))
        IN  ~r.k.hung => Dup2Done(r, old_fd, new_fd)

\* The current process has duplicated a pipe end onto a standard descriptor
\* and holds both ends of the pipe.
Dup2Happened ==
    /\ CanTrap
    /\ h_last.no = SYS_DUP2 /\ h_last.ret = 0 /\ h_last.pid = current_pid
    /\ LET fds == processes[SlotOf(processes, current_pid)].fd_table
       IN  /\ fds[0] # None /\ fds[0].kind = "Pipe" /\ fds[0] = fds[3]
           /\ fds[4] # None /\ fds[4].kind = "Pipe"
           /\ Refcount(pipes[fds[0].pipe_id], fds[0].is_read_end) = 2


\* ---------------------------------------------------------------------
\* spawn of an arbitrary program file with arbitrary arguments
\* ---------------------------------------------------------------------
(***************************************************************************)
(* elf.rs and process.rs in detail.  A program file is kept as its length  *)
(* and the fields ElfFile::parse decodes from it: whether the ident bytes  *)
(* are those parse accepts, e_entry, e_phentsize, e_phoff, and the program *)
(* headers found at e_phoff (e_phnum of them), each with p_type, p_offset, *)
(* p_vaddr, p_filesz and p_memsz.  Sizes and addresses stay far below the  *)
(* machine word, so no sum overflows.  An indexing or slicing out of       *)
(* bounds, and an allocation the heap cannot serve, is a panic.            *)
(***************************************************************************)
ELF_HEADER_SIZE == 64
ELF_PHDR_SIZE == 56
PT_LOAD == 1
KERNEL_HEAP_SIZE == 2097152
ARG_PTRS_LEN == 16

Loadable(phs) == SelectSeq(phs, LAMBDA ph : ph.p_type = PT_LOAD)

\* ElfFile::parse
ElfFile_parse(file) ==
    IF file.len < ELF_HEADER_SIZE THEN [ok |-> FALSE, err |-> "Truncated"]
    ELSE IF ~file.ident_ok THEN [ok |-> FALSE, err |-> "BadMagic"]
    ELSE IF file.e_phentsize # ELF_PHDR_SIZE
    THEN [ok |-> FALSE, err |-> "UnsupportedVersion"]
    ELSE IF file.e_phoff + Len(file.ph) * file.e_phentsize > file.len
    THEN [ok |-> FALSE, err |-> "Truncated"]
    ELSE [ok |-> TRUE, err |-> "none", entry |-> file.e_entry,
          segments |-> Loadable(file.ph), len |-> file.len]

\* saturating_sub
saturating_sub(a, b) == IF a >= b THEN a - b ELSE 0

\* The smallest vaddr of the segments, or the entry when there are none.
base_vaddr(elf) ==
    IF elf.segments = << >> THEN elf.entry
    ELSE LET V == {elf.segments[i].p_vaddr : i \in 1 .. Len(elf.segments)}
         IN  CHOOSE v \in V : \A w \in V : v <= w

RECURSIVE load_segments(_, _)
\* The loop of process::load over the segments from the i-th on: "panic",
\* "OutOfMemory" or "ok".
load_segments(elf, i) ==
    IF i > Len(elf.segments) THEN "ok"
    ELSE LET seg == elf.segments[i]
             start == seg.p_offset
             end == start + seg.p_filesz
             dest_end == saturating_sub(seg.p_vaddr, base_vaddr(elf)) + seg.p_memsz
         IN  \* vec![0u8; mem_size]
             IF seg.p_memsz > KERNEL_HEAP_SIZE THEN "panic"
             \* data[..file_size].copy_from_slice(&elf.data[start..end])
             ELSE IF seg.p_filesz > 0 /\ seg.p_filesz > seg.p_memsz THEN "panic"
             ELSE IF seg.p_filesz > 0 /\ end > elf.len THEN "panic"
             ELSE IF dest_end > USER_WINDOW_SIZE THEN "OutOfMemory"
             ELSE load_segments(elf, i + 1)

\* process::load on the content of the file at the path (None: no such
\* file): "panic", an error, or "ok".
load_file(file) ==
    IF file = None THEN "Fs"
    ELSE LET elf == ElfFile_parse(file)
         IN  IF ~elf.ok THEN "Elf" ELSE load_segments(elf, 1)

RECURSIVE push_strings(_, _, _)
\* The first loop of build_user_stack with its stores into arg_ptrs, from
\* the argument of the given index (counted from 0) down: "panic",
\* "OutOfMemory" or "ok".  args are the argument lengths.
push_strings(sp, args, index) ==
    IF index < 0 THEN "ok"
    ELSE LET sp1 == sp - (args[index + 1] + 1)
         IN  IF sp1 < 0 THEN "OutOfMemory"
             \* arg_ptrs[index] = sp
             ELSE IF index >= ARG_PTRS_LEN THEN "panic"
             ELSE push_strings(sp1, args, index - 1)

\* sys_spawn as far as the creation of the process entry: what becomes of
\* the call.
spawn_outcome(file, args) ==
    LET l == load_file(file)
        b == push_strings(USER_WINDOW_SIZE, args, Len(args) - 1)
    IN  IF l = "panic" THEN "panic"
        ELSE IF l # "ok" THEN "ProgramNotFound"
        ELSE IF b = "panic" THEN "panic"
        ELSE IF b # "ok" THEN "LoadFailed"
        ELSE "created"

\* The program files tried: missing, too short, wrong ident, wrong header
\* size, headers beyond the end, and files with no or one program header
\* whose segment lies inside or outside the file and the window.
MaxArgc == 17
FileLens == {0, 128, 256}
Phdrs ==
    [p_type : {0, PT_LOAD}, p_offset : {120, 250}, p_vaddr : {0, 4096},
     p_filesz : {0, 8, 64}, p_memsz : {0, 8, 64, USER_WINDOW_SIZE + 1,
                                       KERNEL_HEAP_SIZE + 1}]
ElfFiles ==
    {None} \cup
    [len : FileLens, ident_ok : BOOLEAN, e_entry : {0}, e_phentsize : {0, ELF_PHDR_SIZE},
     e_phoff : {ELF_HEADER_SIZE}, ph : {<< >>} \cup {<< ph >> : ph \in Phdrs}]
ArgLens == {[i \in 1 .. n |-> len] : n \in 0 .. MaxArgc, len \in {0, 3}}
               \cup {<< USER_WINDOW_SIZE >>}

LoaderInit ==
    /\ processes = launch_user_shell.processes
    /\ current_pid = launch_user_shell.current_pid
    /\ next_pid = launch_user_shell.next_pid
    /\ pipes = launch_user_shell.pipes
    /\ window = launch_user_shell.window
    /\ trap_frame = launch_user_shell.trap_frame
    /\ sepc = launch_user_shell.sepc
    /\ sscratch = launch_user_shell.sscratch
    /\ held = {}
    /\ hung = FALSE
    /\ h_expect = [p \in Pids |-> None]
    /\ h_last = NoTrap
    /\ h_in = << >>
    /\ h_out = << >>
    /\ h_traps = 0
    /\ u_prog = << >>
    /\ fs = fs_init
    /\ h_fs = NoFiles
    /\ h_load \in [file : ElfFiles, args : ArgLens, outcome : {"pending"}]

\* The process spawns the program stored in the file, with the arguments.
SpawnProgram ==
    /\ h_load.outcome = "pending"
    /\ h_load' = [h_load EXCEPT
                    !.outcome = spawn_outcome(h_load.file, h_load.args)]
    /\ UNCHANGED << kvars, hvars, u_prog, fs, h_fs >>

LoaderNext == SpawnProgram

LoaderSpec == LoaderInit /\ [][LoaderNext]_vars

\* C24: no syscall invoked with user-chosen arguments drives the kernel into
\* a panic, every invalid request being reported as a negative errno: spawn
\* with any argc (also above 16) and of any file content (a PT_LOAD segment
\* whose offset and size lie outside the file, a memory size larger than the
\* window) ends in an error or in a created process.
C24_NoPanic ==
    h_load # None
      => h_load.outcome \in {"pending", "ProgramNotFound", "LoadFailed", "created"}

\* Spawn does not panic when the file's segments lie inside the file and have
\* a memory size no smaller than the file size and no larger than the heap,
\* and at most 16 arguments are passed.
NoPanicWellFormed ==
    (/\ h_load # None
     /\ Len(h_load.args) <= ARG_PTRS_LEN
     /\ h_load.file # None
          => \A i \in 1 .. Len(h_load.file.ph) :
               LET ph == h_load.file.ph[i]
               IN  /\ ph.p_memsz <= KERNEL_HEAP_SIZE
                   /\ ph.p_filesz <= ph.p_memsz
                   /\ ph.p_offset + ph.p_filesz <= h_load.file.len)
      => h_load.outcome # "panic"


\* ---------------------------------------------------------------------
\* the decision of maybe_switch
\* ---------------------------------------------------------------------

\* The syscalls the actions of Next make, as (no, a1, a2, a3, bytes, inbyte).
Calls ==
    {<< SYS_WRITE, fd, 1, len, Fill(len), 0 >> : fd \in WriteFds, len \in 0 .. MaxIo}
    \cup {<< SYS_READ, fd, 1, len, << >>, 9 >> : fd \in ReadFds, len \in 0 .. MaxIo}
    \cup {<< SYS_EXIT, code, 0, 0, << >>, 0 >> : code \in ExitCodes}
    \cup {<< SYS_CLOSE, fd, 0, 0, << >>, 0 >> : fd \in CloseFds}
    \cup {<< SYS_DUP2, p[1], p[2], 0, << >>, 0 >> : p \in Dup2Pairs}
    \cup {<< SYS_PIPE, 1, 0, 0, << >>, 0 >>, << SYS_WAIT, 1, 0, 0, << >>, 0 >>}
    \cup {<< SYS_SPAWN, sa[1], Len(sa[1]), 1, sa[2], 0 >> : sa \in SpawnArgs}

\* The kernel state at the tail of the syscall c made in the present state,
\* when maybe_switch is called.
AtTail(c) == ecall_dispatch(trap_entry(K, c[1], c[2], c[3], c[4]), c[5], c[6])

\* The state of the current process of k, "absent" when there is none.
CurrentState(k) ==
    IF k.current_pid = INVALID_PID \/ SlotOf(k.processes, k.current_pid) = -1
    THEN "absent"
    ELSE k.processes[SlotOf(k.processes, k.current_pid)].state

OtherRunnable(k) ==
    \E t \in Slots : /\ k.processes[t] # None
                     /\ k.processes[t].pid # k.current_pid
                     /\ Runnable(k.processes[t])

States(k) == [t \in Slots |-> IF k.processes[t] = None THEN "absent"
                              ELSE k.processes[t].state]

\* maybe_switch has taken the state d to the state m by switching to another
\* process; the process current in d is left in the state st.
Switched(d, m, st) ==
    /\ m.current_pid # d.current_pid
    /\ CurrentState(m) = "Running"
    /\ \A t \in Slots :
         States(m)[t] =
           IF t = SlotOf(m.processes, m.current_pid) THEN "Running"
           ELSE IF t = SlotOf(d.processes, d.current_pid) THEN st
           ELSE States(d)[t]

\* The decision table of maybe_switch between the state d at the tail of a
\* syscall and the state m it leaves.
DecisionTable(d, m) ==
    LET st == CurrentState(d)
    IN  /\ st \in {"Blocked", "Exited", "absent"} => Switched(d, m, st)
        /\ (st \in {"Running", "Ready"} /\ OtherRunnable(d))
             => Switched(d, m, "Ready")
        /\ (st \in {"Running", "Ready"} /\ ~OtherRunnable(d))
             => m.current_pid = d.current_pid /\ States(m) = States(d)

\* C25: at the tail of every syscall maybe_switch follows the decision table:
\* with the current process Blocked, Exited or absent it switches to another
\* process without marking the current one Ready; with the current process
\* Running or Ready and another process runnable it switches and marks the
\* current one Ready if it was Running; with the current process Running or
\* Ready and no other process runnable it stays, changing neither
\* current_pid nor any process state.
C25_DecisionTable ==
    CanTrap =>
      \A c \in Calls :
        LET d == AtTail(c)
        IN  ~d.hung => DecisionTable(d, maybe_switch(d))

\* The same where another process is runnable whenever the current one is
\* Blocked, Exited or absent.
DecisionTableWithSuccessor ==
    CanTrap =>
      \A c \in Calls :
        LET d == AtTail(c)
        IN  (~d.hung /\ (OtherRunnable(d) \/ CurrentState(d) \in {"Running", "Ready"}))
              => DecisionTable(d, maybe_switch(d))

\* A process has blocked or exited and another process has been switched in.
SwitchedFromBlockedOrExited ==
    /\ ~hung
    /\ h_last.resumed # INVALID_PID
    /\ SlotOf(processes, h_last.pid) # -1
    /\ processes[SlotOf(processes, h_last.pid)].state \in {"Blocked", "Exited"}


\* ---------------------------------------------------------------------
\* the order of schedule()
\* ---------------------------------------------------------------------

\* The PIDs of the Ready and Running processes.
RunnablePids ==
    {processes[t].pid : t \in {u \in Slots : processes[u] # None /\ Runnable(processes[u])}}

\* The runnable PID that follows pid in PID order, wrapping around to the
\* smallest; INVALID_PID when nothing is runnable.
NextInPidOrder(pid) ==
    LET after == {q \in RunnablePids : q > pid}
        least(S) == CHOOSE q \in S : \A x \in S : q <= x
    IN  IF RunnablePids = {} THEN INVALID_PID
        ELSE IF pid = INVALID_PID \/ after = {} THEN least(RunnablePids)
        ELSE least(after)

\* C26: schedule() returns, among the Ready and Running processes, the one
\* that follows the current process in PID order, wrapping around to the
\* smallest runnable PID; with no current process the runnable process with
\* the smallest PID; none exactly when no process is Ready or Running; also
\* after slots freed by wait have been reused by later spawns.
C26_ScheduleInPidOrder ==
    Scheduler_schedule(K).v = NextInPidOrder(current_pid)

\* The PIDs of the table increase with the slots.
SlotOrderIsPidOrder ==
    \A t, u \in Slots :
      (t < u /\ processes[t] # None /\ processes[u] # None)
        => processes[t].pid < processes[u].pid

\* As long as no freed slot has been reused and the current process is
\* runnable, schedule() returns the next runnable process in PID order; and
\* it returns none exactly when nothing is runnable.
ScheduleInSlotOrder ==
    /\ (SlotOrderIsPidOrder /\ current_pid \in RunnablePids)
          => C26_ScheduleInPidOrder
    /\ (Scheduler_schedule(K).v = INVALID_PID) <=> (RunnablePids = {})
    /\ Scheduler_schedule(K).v # INVALID_PID
          => Scheduler_schedule(K).v \in RunnablePids


\* ---------------------------------------------------------------------
\* the first entry of a process to user mode
\* ---------------------------------------------------------------------

\* The process running in user mode, unless it is one of skip, has had its
\* first entry: started is set.
CurrentStarted(skip) ==
    (CanTrap /\ current_pid \notin skip)
       => processes[SlotOf(processes, current_pid)].started

\* A step that switches to another process: one that had not started gets
\* a0 = argc and a1 = argv_ptr and is started from then on; one that had
\* started gets the trap frame as the syscall left it.
EntryStep ==
    (h_traps' = h_traps + 1 /\ ~hung' /\ current_pid' # current_pid
       /\ SlotOf(processes', current_pid') # -1)
      => LET s == SlotOf(processes', current_pid')
             p == processes'[s]
             first == \/ processes[s] = None
                      \/ processes[s].pid # p.pid
                      \/ ~processes[s].started
         IN  /\ p.started
             /\ first => /\ trap_frame'.a0 = p.argc
                         /\ trap_frame'.a1 = p.argv_ptr
             /\ ~first => trap_frame' = h_expect'[h_last'.pid].tf

\* started is never taken back.
StartedStays ==
    \A s \in Slots :
      (processes[s] # None /\ processes[s].started /\ processes'[s] # None
         /\ processes'[s].pid = processes[s].pid)
        => processes'[s].started

\* C27: for every process, the initial shell (PID 1) included, a0 = argc and
\* a1 = argv_ptr recorded at spawn are placed in the registers exactly once,
\* at the first entry to user mode; started is set at that moment, and no
\* later resumption overwrites a0/a1 or other registers with the initial
\* values.
C27_InjectedOnce ==
    /\ [](CurrentStarted({}))
    /\ [][EntryStep /\ StartedStays]_vars

\* The same for the processes created by the spawn syscall.
ChildrenInjectedOnce ==
    /\ [](CurrentStarted({1}))
    /\ [][EntryStep /\ StartedStays]_vars

\* A spawned process that had trapped before has been resumed.
ChildResumedAgain ==
    /\ ~hung
    /\ h_last.resumed \notin {INVALID_PID, 1}
    /\ h_last.trapped_before


\* ---------------------------------------------------------------------
\* waking on a pipe transfer
\* ---------------------------------------------------------------------

\* The number of bytes the read or write recorded in h_last' moves through
\* the pipe as it was before the trap.
Transferred ==
    LET fd == h_last'.fd
        pre == h_last'.pre
    IN  IF h_last'.no = SYS_READ
        THEN (IF fd.is_read_end THEN Pipe_read(pre, h_last'.n).res.val ELSE 0)
        ELSE (IF fd.is_read_end THEN 0
              ELSE Pipe_write(pre, Fill(h_last'.n)).res.val)

\* q, with pid registered if it was not.
Registered(q, pid) ==
    IF \E j \in 1 .. Len(q) : q[j] = pid THEN q ELSE Append(q, pid)

\* A read or write on a pipe: with at least one byte transferred the queue of
\* the opposite end is emptied and its processes are not Blocked any more
\* when the trap returns; with nothing transferred the queues are those of
\* before, the caller possibly registered.  quiet: only the transfers that
\* find the queue of the opposite end empty are looked at.
PipeWakeStep(quiet) ==
    ((TrapOf(SYS_READ) \/ TrapOf(SYS_WRITE))
       /\ h_last'.fd # None /\ h_last'.fd.kind = "Pipe" /\ h_last'.pre # None)
      => LET id == h_last'.fd.pipe_id
             pre == h_last'.pre
             opposite == IF h_last'.no = SYS_READ THEN pre.waiting_writers
                         ELSE pre.waiting_readers
         IN  /\ (Transferred > 0 /\ (quiet => opposite = << >>))
                  => /\ ~hung'
                     /\ IF h_last'.no = SYS_READ
                        THEN pipes'[id].waiting_writers = << >>
                        ELSE pipes'[id].waiting_readers = << >>
                     /\ AllWoken(opposite)
             /\ Transferred = 0
                  => /\ ~hung'
                     /\ pipes'[id].waiting_readers
                          \in {pre.waiting_readers,
                               Registered(pre.waiting_readers, h_last'.pid)}
                     /\ pipes'[id].waiting_writers
                          \in {pre.waiting_writers,
                               Registered(pre.waiting_writers, h_last'.pid)}
                     /\ (h_last'.no = SYS_READ
                           => pipes'[id].waiting_writers = pre.waiting_writers)
                     /\ (h_last'.no = SYS_WRITE
                           => pipes'[id].waiting_readers = pre.waiting_readers)

\* C28: a pipe read or write that transfers at least one byte empties the
\* wait queue of the opposite end and makes every Blocked process that was on
\* it Ready before the syscall returns; one that transfers nothing
\* (WouldBlock, EOF, BrokenPipe) leaves both wait queues of the pipe
\* unchanged apart from registering the caller.
C28_TransferWakes == [][PipeWakeStep(FALSE)]_vars

\* The same for the transfers that find nobody waiting at the opposite end.
TransferWakesNobody == [][PipeWakeStep(TRUE)]_vars

\* A write has stored bytes in a pipe on which nobody waited, and a read has
\* found a pipe empty and registered the caller.
TransferHappened ==
    /\ ~hung
    /\ h_last.no \in {SYS_READ, SYS_WRITE}
    /\ h_last.fd # None /\ h_last.fd.kind = "Pipe"
    /\ \/ h_last.ret > 0
       \/ /\ h_last.no = SYS_READ
          /\ \E j \in 1 .. Len(pipes[h_last.fd.pipe_id].waiting_readers) :
               pipes[h_last.fd.pipe_id].waiting_readers[j] = h_last.pid


\* ---------------------------------------------------------------------
\* reclaiming pipe slots
\* ---------------------------------------------------------------------

RECURSIVE RefsFrom(_, _, _)
\* The number of descriptors, in the fd tables of the slots from s on, that
\* reference the given end of pipe i.
RefsFrom(s, i, is_read_end) ==
    IF s >= MAX_PROCESSES THEN 0
    ELSE (IF processes[s] = None THEN 0
          ELSE Refs(processes[s].fd_table, i, is_read_end))
         + RefsFrom(s + 1, i, is_read_end)

\* A live pipe slot counts the descriptors that reference each end, and a
\* free one is referenced by none.
NotFreedWhileReferenced ==
    \A i \in PipeIds, e \in BOOLEAN :
      IF pipes[i] = None THEN RefsFrom(0, i, e) = 0
      ELSE RefsFrom(0, i, e) <= Refcount(pipes[i], e)

\* A slot whose refcounts are both zero is free.
FreedWhenUnreferenced ==
    \A i \in PipeIds :
      pipes[i] # None
        => pipes[i].read_refcount > 0 \/ pipes[i].write_refcount > 0

\* A slot is freed with both wait queues empty, and pipe() takes a free slot.
FreedAndReused ==
    \A i \in PipeIds :
      /\ (pipes[i] # None /\ pipes'[i] = None)
           => /\ pipes[i].waiting_readers = << >>
              /\ pipes[i].waiting_writers = << >>
      /\ (pipes[i] = None /\ pipes'[i] # None)
           => /\ RefsFrom(0, i, TRUE) = 0 /\ RefsFrom(0, i, FALSE) = 0
              /\ pipes'[i].read_refcount = 1 /\ pipes'[i].write_refcount = 1

\* C29: a pipe slot is reclaimed exactly when both its refcounts have reached
\* zero: it is never freed, and never reused by a later pipe(), while some
\* descriptor of any process references either end; once both ends are
\* closed the slot is available again, so that at most MAX_PIPES pipes exist
\* at a time; and both wait queues are empty when the slot is freed.
C29_SlotReclaimed ==
    /\ [](NotFreedWhileReferenced /\ FreedWhenUnreferenced)
    /\ [][FreedAndReused]_vars

\* The same in the states in which the hart runs.
SlotReclaimedWhileRunning ==
    /\ [](~hung => (NotFreedWhileReferenced /\ FreedWhenUnreferenced))
    /\ [][~hung' => FreedAndReused]_vars

\* The process that made a pipe (descriptors 3 and 4) has closed its last
\* descriptor and the slot is free.
SlotFreed ==
    /\ ~hung
    /\ h_last.no = SYS_CLOSE /\ h_last.ret = 0
    /\ window.buf = << 3, 4 >>
    /\ pipes[0] = None


\* ---------------------------------------------------------------------
\* the syscalls on files, and which syscalls suspend the caller
\* ---------------------------------------------------------------------
SYS_FILE_WRITE == 3
SYS_FILE_READ == 4
SYS_FILE_CREATE == 5
SYS_FILE_DELETE == 6
SYS_DIR_CREATE == 7
SYS_DIR_DELETE == 8
SYS_OPEN == 9

\* A kernel state, a filesystem and a result.
RF(k, f, v) == [k |-> k, fs |-> f, v |-> v]

\* sys_open's flags: bit 0 = read, bit 1 = write, bit 2 = create, bit 3 = append
FileMode(flags) ==
    [read |-> flags % 2 = 1, write |-> (flags \div 2) % 2 = 1,
     create |-> (flags \div 4) % 2 = 1, append |-> (flags \div 8) % 2 = 1]

FileFd(path, pos, mode) == [kind |-> "File", path |-> path, pos |-> pos, mode |-> mode]

\* FileFd::open: the filesystem after, and the descriptor or the error.
FileFd_open(f, path, mode) ==
    LET exists == read_file_contents(f, path).ok
        c == create_file(f, path)
        f1 == IF ~exists /\ mode.create THEN c.k ELSE f
        r == read_file_contents(f1, path)
        pos == IF mode.append /\ r.ok THEN Len(r.data) ELSE 0
    IN  IF ~exists /\ ~mode.create THEN [fs |-> f, v |-> Err("NotFound"), fd |-> None]
        ELSE IF ~exists /\ ~c.v.ok THEN [fs |-> c.k, v |-> c.v, fd |-> None]
        ELSE [fs |-> f1, v |-> Ok(0), fd |-> FileFd(path, pos, mode)]

\* A variant of FileFd::read that reports WouldBlock at the end of the file.
FileFd_read_would_block(f, fd, n) ==
    LET contents == read_file_contents(f, fd.path)
    IN  IF ~fd.mode.read THEN [fs |-> f, fd |-> fd, v |-> Err("BadFd")]
        ELSE IF ~contents.ok THEN [fs |-> f, fd |-> fd, v |-> Err(contents.err)]
        ELSE IF fd.pos >= Len(contents.data)
        THEN [fs |-> f, fd |-> fd, v |-> Err("WouldBlock")]
        ELSE [fs |-> f, fd |-> [fd EXCEPT !.pos = @ + Min(n, Len(contents.data) - @)],
              v |-> OkData(SubSeq(contents.data, fd.pos + 1,
                                  Min(fd.pos + n, Len(contents.data))))]

\* FileFd::read
FileFd_read(f, fd, n) ==
    LET contents == read_file_contents(f, fd.path)
        to_read == Min(n, Len(contents.data) - fd.pos)
    IN  IF ~fd.mode.read THEN [fs |-> f, fd |-> fd, v |-> Err("BadFd")]
        ELSE IF ~contents.ok THEN [fs |-> f, fd |-> fd, v |-> Err(contents.err)]
        ELSE IF fd.pos >= Len(contents.data) THEN [fs |-> f, fd |-> fd, v |-> Ok(0)]
        ELSE [fs |-> f, fd |-> [fd EXCEPT !.pos = @ + to_read],
              v |-> OkData(SubSeq(contents.data, fd.pos + 1, fd.pos + to_read))]

\* FileFd::write
FileFd_write(f, fd, buf) ==
    LET old == read_file_contents(f, fd.path)
        contents == IF fd.mode.append
                    THEN (IF old.ok THEN old.data ELSE << >>) \o buf
                    ELSE buf
        w == write_file_contents(f, fd.path, contents)
    IN  IF ~fd.mode.write THEN [fs |-> f, fd |-> fd, v |-> Err("BadFd")]
        ELSE IF ~w.v.ok THEN [fs |-> w.k, fd |-> fd, v |-> w.v]
        ELSE [fs |-> w.k, fd |-> [fd EXCEPT !.pos = Len(contents)],
              v |-> Ok(Len(buf))]

\* sys_open
sys_open(k, f, path, flags) ==
    LET o == FileFd_open(f, path, FileMode(flags))
        a == with_current_fd_table_mut(k, LAMBDA x, s : FdTable_alloc(x, s, o.fd))
    IN  IF ~o.v.ok THEN RF(k, o.fs, o.v) ELSE RF(a.k, o.fs, a.v)

\* sys_file_write, sys_file_read, sys_file_create, sys_file_delete,
\* sys_dir_create and sys_dir_delete: the path, the data and the buffer
\* length are the arguments read from user memory.
sys_file_write(k, f, path, data) ==
    LET w == write_file_contents(f, path, data)
    IN  RF(k, w.k, IF w.v.ok THEN Ok(Len(data)) ELSE w.v)

sys_file_read(k, f, path, buf_len) ==
    LET contents == read_file_contents(f, path)
        to_copy == Min(Len(contents.data), buf_len)
    IN  IF ~contents.ok THEN RF(k, f, contents)
        ELSE IF to_copy > 0
        THEN RF([k EXCEPT !.window.buf = SubSeq(contents.data, 1, to_copy)], f,
                Ok(to_copy))
        ELSE RF(k, f, Ok(0))

sys_file_create(k, f, path) == RF(k, create_file(f, path).k, create_file(f, path).v)

sys_file_delete(k, f, path) == RF(k, remove_file(f, path).k, remove_file(f, path).v)

sys_dir_create(k, f, path) ==
    RF(k, create_directory(f, path).k, create_directory(f, path).v)

sys_dir_delete(k, f, path) ==
    RF(k, remove_directory(f, path).k, remove_directory(f, path).v)

\* The descriptor fd of the current process, None when there is none.
CurrentFd(k, fd) ==
    LET s0 == SlotOf(k.processes, k.current_pid)
    IN  IF s0 = -1 \/ fd >= MAX_FDS \/ fd < 0 THEN None
        ELSE k.processes[s0].fd_table[fd]

\* sys_read on a descriptor that is a regular file; a1 = fd, a3 = buf_len.
sys_read_file(k, f) ==
    LET fd == k.trap_frame.a1
        k0 == WithLock(k, "PROCESS_TABLE", LAMBDA x : x)
        io == FileFd_read(f, CurrentFd(k0, fd), k.trap_frame.a3)
        k1 == WithLock(k0, "PROCESS_TABLE",
                LAMBDA x : [x EXCEPT !.processes[SlotOf(x.processes, x.current_pid)]
                                       .fd_table[fd] = io.fd])
    IN  IF io.v.ok
        THEN RF(IF io.v.data # << >> THEN [k1 EXCEPT !.window.buf = io.v.data]
                ELSE k1, io.fs, io.v)
        ELSE IF io.v.err = "WouldBlock"
        THEN RF(block_on_pipe(k1, -1, k0.current_pid, TRUE), io.fs, io.v)
        ELSE RF(k1, io.fs, io.v)

\* sys_write on a descriptor that is a regular file; a1 = fd, a3 = len.
sys_write_file(k, f, bytes) ==
    LET fd == k.trap_frame.a1
        k0 == WithLock(k, "PROCESS_TABLE", LAMBDA x : x)
        io == FileFd_write(f, CurrentFd(k0, fd), bytes)
        k1 == WithLock(k0, "PROCESS_TABLE",
                LAMBDA x : [x EXCEPT !.processes[SlotOf(x.processes, x.current_pid)]
                                       .fd_table[fd] = io.fd])
    IN  IF k.trap_frame.a3 = 0 THEN RF(k, f, Ok(0))
        ELSE IF io.v.ok THEN RF(k1, io.fs, io.v)
        ELSE IF io.v.err = "WouldBlock"
        THEN RF(block_on_pipe(k1, -1, k0.current_pid, FALSE), io.fs, io.v)
        ELSE RF(k1, io.fs, io.v)

IsFile(k, fd) == CurrentFd(k, fd) # None /\ CurrentFd(k, fd).kind = "File"

\* dispatch with the filesystem f: path is the string a1/a2 point at, data
\* the bytes (or the buffer) a3/a4 or a2/a3 point at.
dispatch_fs(k, f, path, data, inbyte) ==
    LET no == k.trap_frame.a0
        code(r) == RF(r.k, r.fs, IF r.v.ok THEN r.v.val ELSE errno(r.v.err))
        rest == dispatch(k, data, inbyte)
    IN  CASE no = SYS_FILE_WRITE -> code(sys_file_write(k, f, path, data))
          [] no = SYS_FILE_READ -> code(sys_file_read(k, f, path, Len(data)))
          [] no = SYS_FILE_CREATE -> code(sys_file_create(k, f, path))
          [] no = SYS_FILE_DELETE -> code(sys_file_delete(k, f, path))
          [] no = SYS_DIR_CREATE -> code(sys_dir_create(k, f, path))
          [] no = SYS_DIR_DELETE -> code(sys_dir_delete(k, f, path))
          [] no = SYS_OPEN -> code(sys_open(k, f, path, k.trap_frame.a3))
          [] no = SYS_READ /\ IsFile(k, k.trap_frame.a1) -> code(sys_read_file(k, f))
          [] no = SYS_WRITE /\ IsFile(k, k.trap_frame.a1)
               -> code(sys_write_file(k, f, data))
          [] OTHER -> RF(rest.k, f, rest.v)


\* The state of the process pid in k, "absent" when it has no slot.
StateOf(k, pid) ==
    IF SlotOf(k.processes, pid) = -1 THEN "absent"
    ELSE k.processes[SlotOf(k.processes, pid)].state

\* The calls the statement lets suspend the caller: wait, and read or write
\* on a descriptor that is a pipe end.
Suspends(k, no, a1) ==
    \/ no = SYS_WAIT
    \/ no \in {SYS_READ, SYS_WRITE} /\ CurrentFd(k, a1) # None
                                    /\ CurrentFd(k, a1).kind = "Pipe"

\* k is the kernel at the trap, r what dispatch returns for it.
CallerKept(k, r) ==
    LET no == k.trap_frame.a0
        pre == StateOf(k, k.current_pid)
        post == StateOf(r.k, k.current_pid)
    IN  /\ (post = "Blocked" /\ pre # "Blocked") => Suspends(k, no, k.trap_frame.a1)
        /\ (post = "Exited" /\ pre # "Exited") => no = SYS_EXIT
        /\ (~Suspends(k, no, k.trap_frame.a1) /\ no # SYS_EXIT) => post = pre

UnknownNos == {0, 16, 99}

\* A file that exists and one that does not.
FilePaths == { << 97 >>, << 98 >> }

FileNos == {SYS_FILE_WRITE, SYS_FILE_READ, SYS_FILE_CREATE, SYS_FILE_DELETE,
            SYS_DIR_CREATE, SYS_DIR_DELETE}

\* The files opened, as (path, flags): one that exists for reading and for
\* appending, one that does not for reading, writing and creating.
OpenCalls == { << << 97 >>, 1 >>, << << 97 >>, 14 >>, << << 98 >>, 7 >> }

\* The reads and writes made on an opened file, as (no, length).
FileIo == { << SYS_READ, MaxIo >>, << SYS_WRITE, MaxIo >>, << SYS_WRITE, 0 >> }

\* The filesystem with a file of two bytes in it.
WithFile == write_file_contents(fs, << 97 >>, Bytes(1, 2)).k

\* The kernel at the trap of a syscall with the arguments a1 and a3.
AtTrap(k, no, a1, a3) == trap_entry(k, no, a1, 1, a3)

\* open(path, flags) in the present state, and the reads and writes of FileIo
\* on the descriptor it returns.
OpenThenIo(f, path, flags) ==
    LET o == dispatch_fs(AtTrap(K, SYS_OPEN, 1, flags), f, path, << >>, 0)
    IN  /\ CallerKept(AtTrap(K, SYS_OPEN, 1, flags), o)
        /\ o.v >= 0 =>
             \A c \in FileIo :
               CallerKept(AtTrap(o.k, c[1], o.v, c[2]),
                          dispatch_fs(AtTrap(o.k, c[1], o.v, c[2]), o.fs, << >>,
                                      Fill(c[2]), 0))

\* C30: only read or write on a pipe descriptor and wait change the state
\* of the caller to Blocked, only exit changes it to Exited, and every other
\* syscall (open, close, dup2, pipe, spawn, the file and directory syscalls,
\* read and write on the UART or on a file, an unknown number) returns
\* from dispatch with the state of the caller as it was.
C30_OnlyTheseSuspend ==
    CanTrap =>
      LET f == WithFile
      IN  /\ \A c \in Calls :
               LET t == trap_entry(K, c[1], c[2], c[3], c[4])
               IN  CallerKept(t, dispatch_fs(t, f, << >>, c[5], c[6]))
          /\ \A no \in UnknownNos, a1 \in FdNums :
               CallerKept(AtTrap(K, no, a1, 1),
                          dispatch_fs(AtTrap(K, no, a1, 1), f, << >>, Fill(1), 0))
          /\ \A path \in FilePaths, no \in FileNos :
               CallerKept(AtTrap(K, no, 1, MaxIo),
                          dispatch_fs(AtTrap(K, no, 1, MaxIo), f, path, Fill(MaxIo), 0))
          /\ \A c \in OpenCalls : OpenThenIo(f, c[1], c[2])


\* The last trap was a read on a pipe that blocked its caller, and in the
\* state it left an open of the file and a read on the descriptor return the
\* two bytes of the file with the state of the caller as it was.
BlockedByPipeReadOnly ==
    /\ CanTrap
    /\ h_last.no = SYS_READ /\ h_last.ret = EAGAIN
    /\ StateOf(K, h_last.pid) = "Blocked"
    /\ LET o == dispatch_fs(AtTrap(K, SYS_OPEN, 1, 1), WithFile, << 97 >>, << >>, 0)
           t == AtTrap(o.k, SYS_READ, o.v, MaxIo)
           r == dispatch_fs(t, o.fs, << >>, Fill(MaxIo), 0)
       IN  /\ o.v >= 0
           /\ r.v = 2
           /\ r.k.window.buf = Bytes(1, 2)
           /\ StateOf(r.k, current_pid) = StateOf(K, current_pid)


\* ---------------------------------------------------------------------
\* the user window across sys_spawn
\* ---------------------------------------------------------------------

\* Sixteen arguments whose copies, with their NUL bytes, are sixteen bytes
\* more than the window holds.
TooLong == [i \in 1 .. ARG_PTRS_LEN |-> USER_WINDOW_SIZE \div ARG_PTRS_LEN]

\* What spawn is called with: the path and the argument lengths.
SpawnInputs == SpawnArgs \cup {<< "cat", TooLong >>}

\* The kernel at the trap of spawn(sa), and what sys_spawn returns for it.
AtSpawn(sa) == trap_entry(K, SYS_SPAWN, sa[1], Len(sa[1]), 1)

Spawned(sa) == sys_spawn(AtSpawn(sa), sa[2])

\* The process sys_spawn created, when it returned a PID.
ChildOf(r) == r.k.processes[SlotOf(r.k.processes, r.v.val)]

\* The window is the caller's, and a child made holds the image built.
WindowRestored(sa) ==
    /\ Spawned(sa).k.window = AtSpawn(sa).window
    /\ Spawned(sa).v.ok =>
         /\ ChildOf(Spawned(sa)).memory.text = Binaries[sa[1]].text
         /\ ChildOf(Spawned(sa)).memory.stack = sa[2]

\* C31: when sys_spawn returns, with a PID or with an error, the user window
\* holds the bytes of the caller from before the call, and the memory of a
\* child made holds the loaded segments and the initial stack.
C31_WindowRestored ==
    CanTrap => \A sa \in SpawnInputs : WindowRestored(sa)

\* The same for every return but LoadFailed.
WindowRestoredUnlessLoadFailed ==
    CanTrap => \A sa \in SpawnInputs :
                 (Spawned(sa).v.ok \/ Spawned(sa).v.err # "LoadFailed")
                    => WindowRestored(sa)

\* The table is full: spawn of a program that exists returns
\* TooManyProcesses, after the window has been put back.
SpawnIntoFullTable ==
    /\ CanTrap
    /\ \E sa \in SpawnInputs : /\ ~Spawned(sa).v.ok
                               /\ Spawned(sa).v.err = "TooManyProcesses"
                               /\ WindowRestored(sa)


\* The image that the program at path and the arguments determine: the
\* segments, the initial stack and zero everywhere else.
ImageOf(path, args) ==
    [ZeroWindow EXCEPT !.text = Binaries[path].text, !.stack = args]

\* C32: the memory of a spawned child depends only on the program file and
\* the arguments: outside the loaded segments and the initial stack it is
\* zero, whatever the memory of the parent holds.
C32_ImageOfFileAndArgs ==
    CanTrap => \A sa \in SpawnInputs :
                 Spawned(sa).v.ok => ChildOf(Spawned(sa)).memory = ImageOf(sa[1], sa[2])

\* What the child gets outside the segments and the stack is what the
\* window of the parent held at the call.
ImageOverParentWindow ==
    CanTrap => \A sa \in SpawnInputs :
                 Spawned(sa).v.ok =>
                   ChildOf(Spawned(sa)).memory =
                     [AtSpawn(sa).window EXCEPT !.text = Binaries[sa[1]].text,
                                                !.stack = sa[2]]

\* A child is made by a parent that has read bytes into its buffer, and
\* holds them.
ChildOfParentWithData ==
    /\ CanTrap
    /\ window.buf # << >>
    /\ \E sa \in SpawnInputs :
         Spawned(sa).v.ok /\ ChildOf(Spawned(sa)).memory.buf = window.buf


\* ---------------------------------------------------------------------
\* placing the segments: 64-bit arithmetic
\* ---------------------------------------------------------------------
(***************************************************************************)
(* A u64 is kept as four 16-bit limbs, the least significant first, so     *)
(* that the sums of process::load wrap where the machine's do.             *)
(***************************************************************************)
Limb == 2 ^ 16

\* The u64 of a number below 2^31.
U64(n) == << n % Limb, n \div Limb, 0, 0 >>

\* The number a u64 below 2^31 stands for.
Small(a) == a[1] + Limb * a[2]

U64_MAX == << Limb - 1, Limb - 1, Limb - 1, Limb - 1 >>

\* a < b and a <= b
LessU64(a, b) ==
    \E i \in 1 .. 4 : a[i] < b[i] /\ \A j \in (i + 1) .. 4 : a[j] = b[j]

LeqU64(a, b) == a = b \/ LessU64(a, b)

\* a + b modulo 2^64, and whether the sum left the 64 bits
AddU64(a, b) ==
    LET s1 == a[1] + b[1]
        s2 == a[2] + b[2] + s1 \div Limb
        s3 == a[3] + b[3] + s2 \div Limb
        s4 == a[4] + b[4] + s3 \div Limb
    IN  [val |-> << s1 % Limb, s2 % Limb, s3 % Limb, s4 % Limb >>,
         overflow |-> s4 >= Limb]

\* a - b for a >= b
SubU64(a, b) ==
    LET d1 == a[1] - b[1]
        d2 == a[2] - b[2] - (IF d1 < 0 THEN 1 ELSE 0)
        d3 == a[3] - b[3] - (IF d2 < 0 THEN 1 ELSE 0)
        d4 == a[4] - b[4] - (IF d3 < 0 THEN 1 ELSE 0)
    IN  << d1 % Limb, d2 % Limb, d3 % Limb, d4 % Limb >>

\* u64::saturating_sub
saturating_sub_u64(a, b) == IF LessU64(a, b) THEN U64(0) ELSE SubU64(a, b)

\* USER_IMAGE_BASE = 0x8040_0000 and USER_IMAGE_LIMIT = 0x8042_0000
USER_IMAGE_BASE == << 0, 32832, 0, 0 >>

USER_IMAGE_LIMIT == AddU64(USER_IMAGE_BASE, U64(USER_WINDOW_SIZE)).val

\* The least vaddr of the segments (there is at least one).
min_vaddr(segs) ==
    segs[CHOOSE i \in 1 .. Len(segs) :
           \A j \in 1 .. Len(segs) : LeqU64(segs[i].vaddr, segs[j].vaddr)].vaddr

RECURSIVE load_dests(_, _, _, _, _)
\* The loop of process::load over the segments from the i-th on; dests are
\* the destinations of the segments before.  checks: the build traps on an
\* overflowing sum (overflow-checks), else the sum wraps.
load_dests(segs, base, i, dests, checks) ==
    IF i > Len(segs) THEN [res |-> "Ok", dests |-> dests]
    ELSE LET seg == segs[i]
             offset == saturating_sub_u64(seg.vaddr, base)
             dest_addr == AddU64(USER_IMAGE_BASE, offset)
             dest_end == AddU64(dest_addr.val, seg.mem_size)
         IN  IF LessU64(U64(KERNEL_HEAP_SIZE), seg.mem_size)
             THEN [res |-> "panic", dests |-> dests]
             ELSE IF checks /\ (dest_addr.overflow \/ dest_end.overflow)
             THEN [res |-> "panic", dests |-> dests]
             ELSE IF LessU64(USER_IMAGE_LIMIT, dest_end.val)
             THEN [res |-> "OutOfMemory", dests |-> dests]
             ELSE load_dests(segs, base, i + 1,
                             Append(dests, [dest |-> dest_addr.val,
                                            len |-> Small(seg.mem_size)]),
                             checks)

RECURSIVE copy_segments(_, _, _)
\* process::load_into_user_window from the i-th segment on: the ranges of
\* the window written, as offsets [from, to), and how it ended.
copy_segments(dests, i, written) ==
    IF i > Len(dests) THEN [res |-> "Ok", written |-> written]
    ELSE LET offset == saturating_sub_u64(dests[i].dest, USER_IMAGE_BASE)
             end == AddU64(offset, U64(dests[i].len)).val
         IN  IF LessU64(U64(USER_WINDOW_SIZE), end)
             THEN [res |-> "OutOfMemory", written |-> written]
             ELSE copy_segments(dests, i + 1,
                                Append(written, [from |-> Small(offset),
                                                 to |-> Small(end)]))

\* process::load and then load_into_user_window, for the segments of a file.
place(segs, checks) ==
    LET l == load_dests(segs, min_vaddr(segs), 1, << >>, checks)
    IN  IF l.res # "Ok" THEN [res |-> l.res, written |-> << >>]
        ELSE copy_segments(l.dests, 1, << >>)


\* The kernel as launch_user_shell leaves it, nothing recorded.
AtLaunch ==
    /\ processes = launch_user_shell.processes
    /\ current_pid = launch_user_shell.current_pid
    /\ next_pid = launch_user_shell.next_pid
    /\ pipes = launch_user_shell.pipes
    /\ window = launch_user_shell.window
    /\ trap_frame = launch_user_shell.trap_frame
    /\ sepc = launch_user_shell.sepc
    /\ sscratch = launch_user_shell.sscratch
    /\ held = {}
    /\ hung = FALSE
    /\ h_expect = [p \in Pids |-> None]
    /\ h_last = NoTrap
    /\ h_in = << >>
    /\ h_out = << >>
    /\ h_traps = 0
    /\ u_prog = << >>
    /\ fs = fs_init
    /\ h_fs = NoFiles

\* 2^64 - USER_IMAGE_BASE: the least offset whose destination wraps.
WrapsToZero == AddU64(SubU64(U64_MAX, USER_IMAGE_BASE), U64(1)).val

\* The vaddr of a segment: inside the window, at its end, where the
\* destination is the last 8 bytes of the address space, where it wraps.
Vaddrs == {U64(0), U64(4096), U64(65536), U64(USER_WINDOW_SIZE),
           SubU64(WrapsToZero, U64(8)), WrapsToZero, U64_MAX}

MemSizes == {U64(0), U64(16), U64(65536), U64(USER_WINDOW_SIZE),
             U64(USER_WINDOW_SIZE + 1), U64(KERNEL_HEAP_SIZE + 1), U64_MAX}

Segments == [vaddr : Vaddrs, mem_size : MemSizes]

\* A file of one or two PT_LOAD segments.
SegmentLists == {<< a >> : a \in Segments} \cup (Segments \X Segments)

PlaceInit ==
    /\ AtLaunch
    /\ h_load \in [segs : SegmentLists, checks : BOOLEAN,
                   out : {[res |-> "pending", written |-> << >>]}]

\* The program is loaded and copied into the window.
PlaceProgram ==
    /\ h_load.out.res = "pending"
    /\ h_load' = [h_load EXCEPT !.out = place(h_load.segs, h_load.checks)]
    /\ UNCHANGED << kvars, hvars, u_prog, fs, h_fs >>

PlaceNext == PlaceProgram

PlaceSpec == PlaceInit /\ [][PlaceNext]_vars

\* vaddr - min vaddr of a segment, and whether [offset, offset + memsz) lies
\* in the window, both in unbounded arithmetic.
OffsetOf(seg, segs) == SubU64(seg.vaddr, min_vaddr(segs))

Fits(seg, segs) ==
    /\ ~AddU64(OffsetOf(seg, segs), seg.mem_size).overflow
    /\ LeqU64(AddU64(OffsetOf(seg, segs), seg.mem_size).val, U64(USER_WINDOW_SIZE))

InWindow(written) ==
    \A i \in 1 .. Len(written) :
       0 <= written[i].from /\ written[i].from <= written[i].to
                            /\ written[i].to <= USER_WINDOW_SIZE

Placed(segs, out) ==
    /\ (\E i \in 1 .. Len(segs) : ~Fits(segs[i], segs)) => out.res = "OutOfMemory"
    /\ out.res = "Ok" =>
         /\ Len(out.written) = Len(segs)
         /\ \A i \in 1 .. Len(segs) :
              /\ out.written[i].from = Small(OffsetOf(segs[i], segs))
              /\ out.written[i].to = Small(OffsetOf(segs[i], segs))
                                       + Small(segs[i].mem_size)
         /\ InWindow(out.written)

\* C33: every segment is copied to base + (vaddr - min vaddr); the load
\* fails with OutOfMemory whenever a segment extends past the end of the
\* window, for all 64-bit vaddr and memsz, and a load that succeeds writes no
\* byte outside the window.
C33_Placed ==
    h_load.out.res # "pending" => Placed(h_load.segs, h_load.out)

\* Whatever the outcome, what was written lies in the window.
NoWriteOutsideWindow ==
    h_load.out.res # "pending" => InWindow(h_load.out.written)

\* No sum of process::load leaves the 64 bits and no segment is larger than
\* the kernel heap.
NoWrap(segs) ==
    \A i \in 1 .. Len(segs) :
       /\ LeqU64(segs[i].mem_size, U64(KERNEL_HEAP_SIZE))
       /\ ~AddU64(USER_IMAGE_BASE, OffsetOf(segs[i], segs)).overflow
       /\ ~AddU64(AddU64(USER_IMAGE_BASE, OffsetOf(segs[i], segs)).val,
                  segs[i].mem_size).overflow

\* Without a wrap the placement is as stated, and a file whose segments all
\* fit is loaded.
PlacedWithoutWrap ==
    (h_load.out.res # "pending" /\ NoWrap(h_load.segs)) =>
       /\ Placed(h_load.segs, h_load.out)
       /\ (\A i \in 1 .. Len(h_load.segs) : Fits(h_load.segs[i], h_load.segs))
             => h_load.out.res = "Ok"

\* Two segments are placed, the second one not at the base.
TwoSegmentsPlaced ==
    /\ h_load.out.res = "Ok"
    /\ Len(h_load.out.written) = 2
    /\ h_load.out.written[2].from > 0
    /\ h_load.out.written[2].to > h_load.out.written[2].from


\* A build that lets sums wrap loads a 16-byte segment whose vaddr is
\* 2^64 - USER_IMAGE_BASE above the least one, at the base of the window.
WrappedSegmentLoaded ==
    /\ ~h_load.checks
    /\ h_load.out.res = "Ok"
    /\ Len(h_load.segs) = 2
    /\ h_load.segs[1] = [vaddr |-> U64(0), mem_size |-> U64(16)]
    /\ h_load.segs[2] = [vaddr |-> WrapsToZero, mem_size |-> U64(16)]
    /\ h_load.out.written[2] = [from |-> 0, to |-> 16]


\* ---------------------------------------------------------------------
\* the initial stack, word by word
\* ---------------------------------------------------------------------
(***************************************************************************)
(* Addresses are offsets from USER_IMAGE_BASE, so a negative address is    *)
(* memory below the window.  An argument is its length and its identity;   *)
(* the stack is the list of strings copied (where, which argument, where   *)
(* its NUL byte went) and the list of words written.                       *)
(***************************************************************************)
RECURSIVE copy_strings(_, _, _, _, _)
\* The first loop of build_user_stack, from argument index down to the
\* first one: sp, the strings copied and arg_ptrs.
copy_strings(sp, args, index, strings, arg_ptrs) ==
    IF index = 0
    THEN [res |-> "Ok", sp |-> sp, strings |-> strings, arg_ptrs |-> arg_ptrs]
    ELSE LET sp1 == sp - (args[index].len + 1)
         IN  IF sp1 < 0
             THEN [res |-> "OutOfMemory", sp |-> sp1, strings |-> strings,
                   arg_ptrs |-> arg_ptrs]
             ELSE copy_strings(sp1, args, index - 1,
                               Append(strings, [at |-> sp1, arg |-> args[index],
                                                nul |-> sp1 + args[index].len]),
                               [arg_ptrs EXCEPT ![index] = sp1])

RECURSIVE push_pointers(_, _, _, _)
\* The loop that pushes arg_ptrs[..argc] in reverse, from index i down.
push_pointers(sp, arg_ptrs, i, words) ==
    IF i = 0 THEN [sp |-> sp, words |-> words]
    ELSE push_pointers(sp - 8, arg_ptrs, i - 1,
                       Append(words, [at |-> sp - 8, val |-> arg_ptrs[i]]))

\* process::build_user_stack for at most ARG_PTRS_LEN arguments
build_user_stack_words(args) ==
    LET argc == Len(args)
        c == copy_strings(USER_WINDOW_SIZE, args, argc, << >>,
                          [i \in 1 .. ARG_PTRS_LEN |-> 0])
        sp2 == c.sp - (c.sp % 16)
        padded == (argc + 2) % 2 # 0
        sp3 == IF padded THEN sp2 - 8 ELSE sp2
        w3 == IF padded THEN << [at |-> sp3, val |-> 0] >> ELSE << >>
        sp4 == sp3 - 8
        w4 == Append(w3, [at |-> sp4, val |-> 0])
        p == push_pointers(sp4, c.arg_ptrs, argc, w4)
        argv_ptr == p.sp
        sp == argv_ptr - 8
    IN  IF c.res # "Ok"
        THEN [res |-> c.res, sp |-> 0, argc |-> 0, argv_ptr |-> 0,
              strings |-> c.strings, words |-> << >>]
        ELSE [res |-> "Ok", sp |-> sp, argc |-> argc, argv_ptr |-> argv_ptr,
              strings |-> c.strings,
              words |-> Append(p.words, [at |-> sp, val |-> argc])]


Arg(len, id) == [len |-> len, id |-> id]

\* Up to three short arguments; one or sixteen arguments that fill the
\* window, nearly or wholly or by one byte too many.
ArgLists ==
    {<< >>}
    \cup {<< Arg(a, 1) >> : a \in {0, 1, 7, 8, 15}}
    \cup {<< Arg(a, 1), Arg(b, 2) >> : a, b \in {0, 1, 7, 8, 15}}
    \cup {<< Arg(a, 1), Arg(b, 2), Arg(c, 3) >> : a, b, c \in {0, 1, 7, 8, 15}}
    \cup {<< Arg(a, 1) >> : a \in {USER_WINDOW_SIZE - 64, USER_WINDOW_SIZE - 32,
                                   USER_WINDOW_SIZE - 1, USER_WINDOW_SIZE}}
    \cup {[i \in 1 .. ARG_PTRS_LEN |-> Arg(a, i)] :
            a \in {1, USER_WINDOW_SIZE \div ARG_PTRS_LEN - 16,
                   USER_WINDOW_SIZE \div ARG_PTRS_LEN - 1,
                   USER_WINDOW_SIZE \div ARG_PTRS_LEN}}

StackInit ==
    /\ AtLaunch
    /\ h_load \in [args : ArgLists, out : {[res |-> "pending"]}]

\* The stack of the arguments is built.
BuildStack ==
    /\ h_load.out.res = "pending"
    /\ h_load' = [h_load EXCEPT !.out = build_user_stack_words(h_load.args)]
    /\ UNCHANGED << kvars, hvars, u_prog, fs, h_fs >>

StackNext == BuildStack

StackSpec == StackInit /\ [][StackNext]_vars

RECURSIVE StringBytes(_, _)
\* The bytes the copies of the first n arguments take, NUL bytes included.
StringBytes(args, n) ==
    IF n = 0 THEN 0 ELSE StringBytes(args, n - 1) + args[n].len + 1

\* The bytes the whole stack takes below the end of the window: the
\* strings, the gap to a 16-byte boundary, argc, argv[0..argc], the
\* terminator and the padding word.
StackBytes(args) ==
    LET top == USER_WINDOW_SIZE - StringBytes(args, Len(args))
    IN  StringBytes(args, Len(args)) + (top % 16)
          + 8 * (Len(args) + 2) + (IF Len(args) % 2 = 1 THEN 8 ELSE 0)

FitsInWindow(args) == StackBytes(args) <= USER_WINDOW_SIZE

\* The word at address a after the writes of words (the last write counts).
WordAt(words, a) ==
    words[CHOOSE i \in 1 .. Len(words) :
            words[i].at = a /\ \A j \in (i + 1) .. Len(words) : words[j].at # a].val

WordWritten(words, a) == \E i \in 1 .. Len(words) : words[i].at = a


\* The stack is laid out as stated.
LaidOut(args, out) ==
    /\ out.res = "Ok"
    /\ out.sp % 16 = 0
    /\ out.argc = Len(args)
    /\ out.argv_ptr = out.sp + 8
    /\ WordWritten(out.words, out.sp) /\ WordAt(out.words, out.sp) = Len(args)
    /\ \A i \in 1 .. Len(args) :
         /\ WordWritten(out.words, out.argv_ptr + 8 * (i - 1))
         /\ \E c \in 1 .. Len(out.strings) :
              /\ out.strings[c].at = WordAt(out.words, out.argv_ptr + 8 * (i - 1))
              /\ out.strings[c].arg = args[i]
              /\ out.strings[c].nul = out.strings[c].at + args[i].len
    /\ WordWritten(out.words, out.argv_ptr + 8 * Len(args))
    /\ WordAt(out.words, out.argv_ptr + 8 * Len(args)) = 0

\* Nothing is written below the base of the window.
NothingBelowBase(out) ==
    /\ \A i \in 1 .. Len(out.words) : out.words[i].at >= 0
    /\ \A c \in 1 .. Len(out.strings) : out.strings[c].at >= 0

\* C34: for at most 16 arguments that fit in the window build_user_stack
\* returns sp, a multiple of 16, with argc at sp, argv_ptr = sp + 8,
\* argv[0..argc) pointing to the NUL-terminated copies of the arguments in
\* order and argv[argc] = 0; for arguments that do not fit it returns
\* OutOfMemory and writes nothing below the base of the window.
C34_StackLaidOut ==
    h_load.out.res # "pending" =>
       IF FitsInWindow(h_load.args) THEN LaidOut(h_load.args, h_load.out)
       ELSE h_load.out.res = "OutOfMemory" /\ NothingBelowBase(h_load.out)

\* The same, for the arguments that fit and for those whose strings alone
\* do not fit.
StackLaidOutOrStringsTooLong ==
    h_load.out.res # "pending" =>
       /\ FitsInWindow(h_load.args) => LaidOut(h_load.args, h_load.out)
       /\ StringBytes(h_load.args, Len(h_load.args)) > USER_WINDOW_SIZE
             => h_load.out.res = "OutOfMemory" /\ NothingBelowBase(h_load.out)

\* Sixteen arguments are laid out, with a padding word.
SixteenLaidOut ==
    /\ h_load.out.res = "Ok"
    /\ Len(h_load.args) = ARG_PTRS_LEN
    /\ LaidOut(h_load.args, h_load.out)

\* The strings fit, the words do not: they are written below the window.
WordsBelowBase ==
    /\ h_load.out.res = "Ok"
    /\ h_load.args = << Arg(USER_WINDOW_SIZE - 1, 1) >>
    /\ h_load.out.sp = -32


\* ---------------------------------------------------------------------
\* next_free_block
\* ---------------------------------------------------------------------
next_free_block == fs.superblock.next_free_block

BlocksNeeded(contents) == (Len(contents) + BLOCK_SIZE - 1) \div BLOCK_SIZE

\* allocate_and_write in the present state: NoSpace and nothing changed when
\* the blocks of contents would pass the end of the device, else the blocks
\* from next_free_block on.
AllocatesOrNoSpace ==
    \A contents \in Contents :
       LET a == allocate_and_write(fs, contents)
       IN  IF next_free_block + BlocksNeeded(contents) > TotalBlocks
           THEN ~a.v.ok /\ a.v.err = "NoSpace" /\ a.k = fs
           ELSE /\ a.v.ok
                /\ a.k.superblock.next_free_block
                     = next_free_block + BlocksNeeded(contents)
                /\ contents # << >> => a.v.start = next_free_block

NextFreeBlockStep ==
    /\ FsFormat => fs'.superblock.next_free_block = DATA_START_BLOCK
    /\ ~FsFormat /\ ~FsRemount
         => fs'.superblock.next_free_block >= next_free_block

\* C35: between two formats next_free_block never decreases under write,
\* create_file, mkdir, remove_file and rmdir; it is 2 after a format and
\* never above the number of blocks of the device; an allocation that would
\* pass the end of the device fails with NoSpace.
C35_NextFreeBlock ==
    /\ [](/\ next_free_block >= DATA_START_BLOCK
          /\ next_free_block <= TotalBlocks
          /\ AllocatesOrNoSpace)
    /\ [][NextFreeBlockStep]_vars

\* The device is full after writes, and a file is still there.
DeviceFull ==
    /\ next_free_block = TotalBlocks
    /\ h_fs.ops >= 2
    /\ \E contents \in Contents : ~allocate_and_write(fs, contents).v.ok
    /\ \E path \in Paths : read_file_contents(fs, path).ok

\* The number of descriptors that reference the given end of pipe i in the
\* fd tables of the processes of table procs that have not exited.
LiveRefs(procs, i, is_read_end) ==
    Cardinality({sn \in Slots \X FdNums :
                   /\ procs[sn[1]] # None
                   /\ procs[sn[1]].state # "Exited"
                   /\ procs[sn[1]].fd_table[sn[2]] = PipeFd(i, is_read_end)})

\* Every pipe end of kernel k counts the descriptors of the live processes.
RefcountsMatch(k) ==
    \A i \in PipeIds, e \in BOOLEAN :
        Refcount(k.pipes[i], e) = LiveRefs(k.processes, i, e)

\* The running process fills the free slots of its fd table with copies of
\* its standard input and then calls pipe().
FillTable(k, fd) ==
    sys_dup2(trap_entry(k, SYS_DUP2, 0, fd, 0)).k

PipeIntoFullTable ==
    sys_pipe(trap_entry(FillTable(FillTable(K, 3), 4), SYS_PIPE, 1, 0, 0))

\* The table of the running process has descriptors 3 and 4 free.
TwoFree ==
    /\ FdOf(3) = None
    /\ FdOf(4) = None

\* C36: when a syscall has returned, each pipe end's refcount is the number
\* of descriptors that reference it in the fd tables of the processes that
\* have not exited, and a pipe() or spawn() that returns an error leaves the
\* refcounts and the pipe slots as they were.
C36_RefcountsCountDescriptors ==
    ~hung =>
        /\ RefcountsMatch(K)
        /\ (CanTrap /\ TwoFree /\ ~PipeIntoFullTable.v.ok)
             => PipeIntoFullTable.k.pipes = pipes
        /\ CanTrap =>
             \A sa \in SpawnInputs :
                 ~Spawned(sa).v.ok => Spawned(sa).k.pipes = pipes

\* The difference between a refcount and the descriptors it counts.
Excess(ps, procs, i, e) == Refcount(ps[i], e) - LiveRefs(procs, i, e)

\* A trap that does not hang, and is not a spawn that fails after the
\* program was found, leaves every refcount as far from its descriptor count
\* as it was; pipe() into a table with two free slots succeeds or, with no
\* free pipe slot, leaves the pipes alone.
RefcountsFollowDescriptors ==
    [][(/\ h_traps' = h_traps + 1
        /\ ~hung'
        /\ ~(h_last'.no = SYS_SPAWN /\ h_last'.ret < 0 /\ h_last'.ret # ENOENT))
         => /\ \A i \in PipeIds, e \in BOOLEAN :
                 Excess(pipes', processes', i, e) = Excess(pipes, processes, i, e)
            /\ (h_last'.no = SYS_PIPE /\ TwoFree)
                 => h_last'.ret = 0 \/ pipes' = pipes]_vars

\* A spawn failed with a full process table while the caller held both ends
\* of a pipe, and the refcounts are above the descriptor counts.
SpawnFailedHoldingPipe ==
    /\ ~hung
    /\ h_last.no = SYS_SPAWN /\ h_last.ret < 0 /\ h_last.ret # ENOENT
    /\ \E i \in PipeIds, e \in BOOLEAN :
         pipes[i] # None /\ Excess(pipes, processes, i, e) > 0

\* pipe() into a full fd table fails and leaves the pipe slot allocated.
PipeFailedSlotKept ==
    /\ CanTrap /\ TwoFree
    /\ pipes[0] = None
    /\ ~PipeIntoFullTable.v.ok
    /\ PipeIntoFullTable.k.pipes[0] # None

\* The process user code runs in once the trap has returned.
InUserMode == processes[SlotOf(processes, current_pid)]

\* C37: whenever the kernel has returned to user mode, from the launch of
\* the shell onwards, current_pid names a process of the table whose state
\* is Running.
C37_CurrentIsRunning ==
    ~hung =>
        /\ current_pid # INVALID_PID
        /\ SlotOf(processes, current_pid) # -1
        /\ InUserMode.state = "Running"

\* Some process other than the current one is Ready or Running.
HasOtherReady ==
    \E s \in Slots :
        /\ processes[s] # None
        /\ processes[s].pid # current_pid
        /\ processes[s].state \in {"Ready", "Running"}

\* The current process is always in the table; it is Running after every
\* context switch, and otherwise Ready while no other process can run, or
\* Blocked or Exited with no process to switch to.
CurrentRunningAfterSwitch ==
    ~hung =>
        /\ current_pid # INVALID_PID
        /\ SlotOf(processes, current_pid) # -1
        /\ h_last.resumed # INVALID_PID => InUserMode.state = "Running"
        /\ InUserMode.state # "Running" => ~HasOtherReady

\* The shell runs user code in state Ready after a syscall of its own.
ShellRunsReady ==
    /\ ~hung
    /\ h_last.pid = 1 /\ current_pid = 1
    /\ InUserMode.state = "Ready"

\* A process runs user code while it is Blocked.
BlockedRunsUserCode ==
    /\ ~hung
    /\ h_traps > 0
    /\ InUserMode.state = "Blocked"

\* Every process Exited in table ps1 is, in table ps2, Exited with the same
\* exit code, or gone.
ExitedKept(ps1, ps2) ==
    \A s \in Slots :
        (ps1[s] # None /\ ps1[s].state = "Exited") =>
            \/ ps2[s] = None
            \/ /\ ps2[s].pid = ps1[s].pid
               /\ ps2[s].state = "Exited"
               /\ ps2[s].exit_code = ps1[s].exit_code

\* The syscalls a process may make next: those of Calls and an exit with
\* another code.
LaterCalls == Calls \cup {<< SYS_EXIT, 4, 0, 0, << >>, 0 >>}

\* The kernel state when the trap of the syscall c made in the present state
\* has been handled.
AfterCall(c) ==
    handle_ecall(trap_entry(K, c[1], c[2], c[3], c[4]), c[5], c[6])

\* The trap has returned to user mode with an Exited process current: what
\* the hart executes after the ecall of exit (user_bin/src/lib.rs:68-77,
\* noreturn) is undefined and may be any syscall.
ExitedIsCurrent == ~hung /\ CurrentState(K) = "Exited"

\* C38: once a process is Exited no operation changes its state or its exit
\* code again; the only thing that happens to it is that its slot is freed.
C38_ExitedIsTerminal ==
    /\ [][ExitedKept(processes, processes')]_vars
    /\ [](ExitedIsCurrent =>
            \A c \in LaterCalls : ExitedKept(processes, AfterCall(c).processes))

\* An Exited process is left alone by every syscall of a process that has
\* not exited, and its slot is freed only by the wait of its parent, which
\* returns its PID.
ExitedKeptByOthers ==
    [][/\ ExitedKept(processes, processes')
       /\ \A s \in Slots :
            (processes[s] # None /\ processes[s].state = "Exited"
               /\ processes'[s] = None)
              => /\ h_last'.no = SYS_WAIT
                 /\ h_last'.pid = processes[s].parent_pid
                 /\ h_last'.ret = processes[s].pid]_vars

\* A process has exited while others watched and one of them made a syscall
\* since, and the Exited process is still in the table.
ExitedOutlivesSyscall ==
    \E s \in Slots :
        /\ processes[s] # None /\ processes[s].state = "Exited"
        /\ ~hung
        /\ h_last.pid # processes[s].pid
        /\ h_last.no # SYS_EXIT

\* An Exited process that is still current becomes Blocked by a syscall.
ExitedBecomesBlocked ==
    /\ ExitedIsCurrent
    /\ \E c \in LaterCalls :
         LET a == AfterCall(c)
         IN  /\ ~a.hung
             /\ a.processes[SlotOf(processes, current_pid)] # None
             /\ a.processes[SlotOf(processes, current_pid)].state = "Blocked"


(***************************************************************************)
(* Scheduling without a bound on the number of traps.  The shell has       *)
(* spawned cat, which has spawned cat again (after a pipe() of the shell   *)
(* or without one), and from then on the processes make syscalls for ever. *)
(* u_prog holds the parity of the ecalls made, so that "the process in     *)
(* user mode makes its next ecall" is a fairness condition on u_prog       *)
(* alone.                                                                  *)
(***************************************************************************)
\* The kernel after spawn("cat") by the current process of k.
SpawnedBy(k) ==
    handle_ecall(trap_entry(k, SYS_SPAWN, "cat", 3, 1), << 2 >>, 0)

\* The kernel after pipe() by the current process of k.
PipedBy(k) == handle_ecall(trap_entry(k, SYS_PIPE, 1, 0, 0), << >>, 0)

FairStarts ==
    {SpawnedBy(SpawnedBy(launch_user_shell)),
     SpawnedBy(SpawnedBy(PipedBy(launch_user_shell)))}

FairInit ==
    /\ \E k \in FairStarts :
         /\ processes = k.processes
         /\ current_pid = k.current_pid
         /\ next_pid = k.next_pid
         /\ pipes = k.pipes
         /\ window = k.window
         /\ trap_frame = k.trap_frame
         /\ sepc = k.sepc
         /\ sscratch = k.sscratch
         /\ held = k.held
         /\ hung = k.hung
    /\ h_expect = [p \in Pids |-> None]
    /\ h_last = NoTrap
    /\ h_in = << >>
    /\ h_out = << >>
    /\ h_traps = 0
    /\ u_prog = << >>
    /\ fs = fs_init
    /\ h_fs = NoFiles
    /\ h_load = None

\* The process in user mode reaches its next ecall.
NextEcall ==
    /\ CanTrap
    /\ u_prog' = IF u_prog = << >> THEN << 1 >> ELSE << >>

\* One trap, nothing recorded.
FairTrap(no, a1, a2, a3, bytes, inbyte) ==
    /\ NextEcall
    /\ Apply(handle_ecall(trap_entry(K, no, a1, a2, a3), bytes, inbyte))
    /\ UNCHANGED << hvars, fsvars >>

FairWrite ==
    /\ CanTrap
    /\ FairTrap(SYS_WRITE, 1, 1, 1, Fill(1), 0)

FairRead ==
    /\ CanTrap
    /\ FairTrap(SYS_READ, 3, 1, 1, << >>, 9)

FairPipe ==
    /\ CanTrap
    /\ FairTrap(SYS_PIPE, 1, 0, 0, << >>, 0)

FairClose ==
    /\ CanTrap
    /\ FairTrap(SYS_CLOSE, 4, 0, 0, << >>, 0)

FairWait ==
    /\ CanTrap
    /\ FairTrap(SYS_WAIT, 1, 0, 0, << >>, 0)

FairExit ==
    /\ CanTrap
    /\ FairTrap(SYS_EXIT, 3, 0, 0, << >>, 0)

FairNext ==
    \/ FairWrite
    \/ FairRead
    \/ FairPipe
    \/ FairClose
    \/ FairWait
    \/ FairExit

\* Every process that runs keeps issuing syscalls.
FairSpec == FairInit /\ [][FairNext]_vars /\ WF_u_prog(NextEcall)

\* Process pid is in the table in the given state.
InState(pid, st) ==
    /\ SlotOf(processes, pid) # -1
    /\ processes[SlotOf(processes, pid)].state = st

\* Process pid is Ready and another process is the current one.
ReadyWaiting(pid) == InState(pid, "Ready") /\ current_pid # pid

\* C39: no Ready process is starved: a process that is Ready while another
\* one runs is eventually made Running.
C39_NoStarvation ==
    \A pid \in Pids : ReadyWaiting(pid) ~> InState(pid, "Running")

\* As long as the hart does not hang, a process that is Ready while another
\* one runs is eventually made Running.
NoStarvationUnlessHung ==
    \A pid \in Pids : ReadyWaiting(pid) ~> (InState(pid, "Running") \/ hung)


\* The filesystem g shows what f shows: every path lists and reads the same
\* and next_free_block is the same.
SameView(f, g) ==
    /\ g.superblock.next_free_block = f.superblock.next_free_block
    /\ \A q \in Paths :
         /\ BytesAt(g, q) = BytesAt(f, q)
         /\ NamesAt(g, q) = NamesAt(f, q)

\* An operation on the present filesystem that answers r with an error has
\* left it as it was.
ErrorKeeps(r) == ~r.v.ok => (r.k = fs \/ SameView(fs, r.k))

\* C40: a filesystem operation that returns an error leaves every directory
\* listing, every file's contents and next_free_block as before the call.
C40_ErrorLeavesUnchanged ==
    \A path \in Paths :
        /\ \A contents \in Contents :
             ErrorKeeps(write_file_contents(fs, path, contents))
        /\ ErrorKeeps(create_file(fs, path))
        /\ ErrorKeeps(create_directory(fs, path))
        /\ ErrorKeeps(remove_file(fs, path))
        /\ ErrorKeeps(remove_directory(fs, path))

\* The path goes through a directory below the root.
Nested(path) == Len(split_path(path)) > 1

\* An error that comes after blocks were allocated: the device runs out of
\* space while the directories of a nested path are written again, or the
\* target of a write of some bytes is an existing directory.
LateError(path, contents, r) ==
    \/ r.v.err = "NoSpace" /\ Nested(path)
    \/ /\ contents # << >>
       /\ r.v.err = "NotADirectory"
       /\ EntryAt(fs, path) = "Directory"

\* An operation on path that answers r with an error has left the
\* filesystem exactly as it was, but for the late errors, which leave the
\* listings and the contents of the files as they were.
KeepsUnlessLate(path, contents, r) ==
    (~r.v.ok /\ r.k # fs) =>
        /\ LateError(path, contents, r)
        /\ \A q \in Paths : /\ BytesAt(r.k, q) = BytesAt(fs, q)
                             /\ NamesAt(r.k, q) = NamesAt(fs, q)

\* This holds of every operation a step of the specification makes.
ErrorLeavesUnchangedUnlessLate ==
    h_fs.ops < MaxFsOps =>
    \A path \in Paths :
        /\ \A contents \in Contents :
             KeepsUnlessLate(path, contents,
                             write_file_contents(fs, path, contents))
        /\ KeepsUnlessLate(path, << >>, create_file(fs, path))
        /\ KeepsUnlessLate(path, << >>, create_directory(fs, path))
        /\ KeepsUnlessLate(path, << >>, remove_file(fs, path))
        /\ KeepsUnlessLate(path, << >>, remove_directory(fs, path))

\* A write of one byte to an existing directory answers NotADirectory and
\* has taken a block.
WriteToDirectoryTakesBlock ==
    \E path \in Paths :
        LET r == write_file_contents(fs, path, Bytes(1, 1))
        IN  /\ EntryAt(fs, path) = "Directory"
            /\ r.v = Err("NotADirectory")
            /\ r.k.superblock.next_free_block = next_free_block + 1

\* A write into a nested directory answers NoSpace after it has taken the
\* blocks of the data.
NestedWriteTakesBlocks ==
    \E path \in Paths, contents \in Contents :
        LET r == write_file_contents(fs, path, contents)
        IN  /\ Nested(path)
            /\ r.v = Err("NoSpace")
            /\ r.k.superblock.next_free_block > next_free_block

====
